---- MODULE Spec2Model ----
(***************************************************************************)
(* A model of k8s-pvc-tagger: the tag builder (buildTags and the parsers   *)
(* it calls), the volume identity resolver (processPersistentVolumeClaim)  *)
(* and the informer's Added / Updated handlers that dispatch to the cloud  *)
(* tagging collaborators.                                                  *)
(*                                                                         *)
(* Go strings are TLA+ strings; Go maps are functions whose domain is the  *)
(* set of keys; a nil pointer is the value NilPtr; a panic of a function   *)
(* that returns a map is the value Panic returned in place of the map.     *)
(***************************************************************************)
EXTENDS Integers, Sequences, FiniteSets, TLC

VARIABLES
    cloud,                \* main.go flag --cloud
    annotationPrefix,     \* main.go flag --annotation-prefix
    defaultTags,          \* main.go flag --default-tags, parsed
    copyLabels,           \* main.go flag --copy-labels, parsed
    tagFormat,            \* main.go flag --tag-format
    allowAllTags,         \* main.go flag --allow-all-tags
    loopVarPerIteration,  \* the build: does a for-range loop make a new variable per iteration
    pvs,                  \* the cluster's PersistentVolumes, by name
    store,                \* the informer's cache: the PVC as last delivered, or NoObject
    remote,               \* the tags on the cloud resources, by resource
    ev,                   \* the last event delivered to the handlers and what the handler did
    crashed,              \* the process has panicked
    call                  \* a direct call of one function: its name, argument and result

vars == <<cloud, annotationPrefix, defaultTags, copyLabels, tagFormat, allowAllTags,
          loopVarPerIteration, pvs, store, remote, ev, crashed, call>>

config == <<cloud, annotationPrefix, defaultTags, copyLabels, tagFormat, allowAllTags,
            loopVarPerIteration>>

----------------------------------------------------------------------------
(* Values that stand for Go's nil, a panic and "no object".                *)

NilPtr == "<nil>"
Panic == [k \in {"<panic>"} |-> "<panic>"]
NoObject == [none |-> TRUE]

----------------------------------------------------------------------------
(* Go maps.                                                                *)

EmptyMap == <<>>

MapPut(m, k, v) == [x \in (DOMAIN m) \cup {k} |-> IF x = k THEN v ELSE m[x]]

\* maps.Copy(dst, src): every entry of src is set in dst
MapCopy(dst, src) == [x \in (DOMAIN dst) \cup (DOMAIN src) |-> IF x \in DOMAIN src THEN src[x] ELSE dst[x]]

MapRemove(m, ks) == [x \in (DOMAIN m) \ ks |-> m[x]]

----------------------------------------------------------------------------
(* The functions of Go's strings package that the program calls.           *)

\* the character at i, "" past either end (the parsers' look-ahead)
CharAt(s, i) == IF i >= 1 /\ i <= Len(s) THEN SubSeq(s, i, i) ELSE ""

Suffix(s, i) == SubSeq(s, i, Len(s))

UpperChars == "ABCDEFGHIJKLMNOPQRSTUVWXYZ"
LowerChars == "abcdefghijklmnopqrstuvwxyz"
DigitChars == "0123456789"

CharIn(c, chars) == Len(c) = 1 /\ \E i \in 1..Len(chars) : CharAt(chars, i) = c

ToLowerChar(c) ==
    IF CharIn(c, UpperChars)
    THEN CharAt(LowerChars, CHOOSE i \in 1..Len(UpperChars) : CharAt(UpperChars, i) = c)
    ELSE c

RECURSIVE ToLower(_)
ToLower(s) == IF s = "" THEN "" ELSE ToLowerChar(CharAt(s, 1)) \o ToLower(Suffix(s, 2))

HasPrefix(s, prefix) == Len(s) >= Len(prefix) /\ SubSeq(s, 1, Len(prefix)) = prefix

\* the least index >= i at which sub occurs in s, 0 when it does not occur
IndexFrom(s, sub, i) ==
    LET at == {j \in i..(Len(s) - Len(sub) + 1) : SubSeq(s, j, j + Len(sub) - 1) = sub}
    IN  IF at = {} THEN 0 ELSE CHOOSE j \in at : \A k \in at : j <= k

Index(s, sub) == IndexFrom(s, sub, 1)

RECURSIVE Split(_, _)
Split(s, sep) ==
    LET i == Index(s, sep)
    IN  IF i = 0 THEN <<s>>
        ELSE <<SubSeq(s, 1, i - 1)>> \o Split(Suffix(s, i + Len(sep)), sep)

\* strings.SplitN(s, sep, 2)
SplitN2(s, sep) ==
    LET i == Index(s, sep)
    IN  IF i = 0 THEN <<s>> ELSE <<SubSeq(s, 1, i - 1), Suffix(s, i + Len(sep))>>

IsSpace(c) == c \in {" ", "\t", "\n", "\r"}

RECURSIVE TrimLeftSpace(_)
TrimLeftSpace(s) == IF s # "" /\ IsSpace(CharAt(s, 1)) THEN TrimLeftSpace(Suffix(s, 2)) ELSE s

RECURSIVE TrimRightSpace(_)
TrimRightSpace(s) ==
    IF s # "" /\ IsSpace(CharAt(s, Len(s))) THEN TrimRightSpace(SubSeq(s, 1, Len(s) - 1)) ELSE s

TrimSpace(s) == TrimRightSpace(TrimLeftSpace(s))

\* strings.Trim(s, cutset) for a one-character cutset
RECURSIVE TrimChar(_, _)
TrimChar(s, c) ==
    IF s # "" /\ CharAt(s, 1) = c THEN TrimChar(Suffix(s, 2), c)
    ELSE IF s # "" /\ CharAt(s, Len(s)) = c THEN TrimChar(SubSeq(s, 1, Len(s) - 1), c)
    ELSE s

\* strings.FieldsFunc(s, c == sep): the non-empty pieces between separators
FieldsOf(s, sep) == SelectSeq(Split(s, sep), LAMBDA f : f # "")

SeqToSet(q) == {q[i] : i \in 1..Len(q)}

----------------------------------------------------------------------------
(* main.go: the fixed names and the parsers of the flag values.            *)

defaultAnnotationPrefix == "k8s-pvc-tagger"
legacyAnnotationPrefix == "aws-ebs-tagger"

AWS == "aws"
AZURE == "azure"
GCP == "gcp"

\* (mutant of parseCsvSegments) the key and the value are taken as they are written
RECURSIVE parseCsvSegmentsUntrimmed(_, _)
parseCsvSegmentsUntrimmed(segs, tags) ==
    IF segs = <<>> THEN tags
    ELSE LET s == Head(segs)
             pairs == SplitN2(s, "=")
             k == pairs[1]
             v == pairs[2]
         IN  IF Len(s) = 0 THEN parseCsvSegmentsUntrimmed(Tail(segs), tags)
             ELSE IF Len(pairs) # 2 THEN parseCsvSegmentsUntrimmed(Tail(segs), tags)
             ELSE IF k = "" \/ v = "" THEN parseCsvSegmentsUntrimmed(Tail(segs), tags)
             ELSE parseCsvSegmentsUntrimmed(Tail(segs), MapPut(tags, k, v))

RECURSIVE parseCsvSegments(_, _)
parseCsvSegments(segs, tags) ==
    IF segs = <<>> THEN tags
    ELSE LET s == Head(segs)
             pairs == SplitN2(s, "=")
             k == TrimSpace(pairs[1])
             v == TrimSpace(pairs[2])
         IN  IF Len(s) = 0 THEN parseCsvSegments(Tail(segs), tags)
             ELSE IF Len(pairs) # 2 THEN parseCsvSegments(Tail(segs), tags)
             ELSE IF k = "" \/ v = "" THEN parseCsvSegments(Tail(segs), tags)
             ELSE parseCsvSegments(Tail(segs), MapPut(tags, k, v))

parseCsv(value) == parseCsvSegments(Split(value, ","), EmptyMap)

parseCopyLabels(copyLabelsString) ==
    IF copyLabelsString = "*" THEN <<"*">> ELSE FieldsOf(copyLabelsString, ",")

----------------------------------------------------------------------------
(* encoding/json: json.Unmarshal([]byte(s), &m) for m of type              *)
(* map[string]string.  The input is first checked for syntax as a whole    *)
(* (nothing is decoded from a text with a syntax error); then it is        *)
(* decoded member by member, and a member whose value is not a string is   *)
(* left "", remembered as the error, and decoding goes on.  The texts      *)
(* covered: an object of members whose values are strings without escapes  *)
(* or unsigned integers, or a single such value; any other text is a       *)
(* syntax error.                                                           *)

RECURSIVE jsonSkipWs(_, _)
jsonSkipWs(s, i) == IF i <= Len(s) /\ IsSpace(CharAt(s, i)) THEN jsonSkipWs(s, i + 1) ELSE i

jsonFail == [ok |-> FALSE]

\* a string literal starting at i
jsonString(s, i) ==
    LET closed(j) ==
            IF CharAt(s, i) # "\"" \/ j = 0 \/ Index(SubSeq(s, i + 1, j - 1), "\\") # 0
            THEN jsonFail
            ELSE [ok |-> TRUE, kind |-> "string", val |-> SubSeq(s, i + 1, j - 1), next |-> j + 1]
    IN  closed(IndexFrom(s, "\"", i + 1))

RECURSIVE jsonDigitsEnd(_, _)
jsonDigitsEnd(s, i) == IF CharIn(CharAt(s, i), DigitChars) THEN jsonDigitsEnd(s, i + 1) ELSE i

jsonValue(s, i) ==
    IF CharAt(s, i) = "\"" THEN jsonString(s, i)
    ELSE IF CharIn(CharAt(s, i), DigitChars)
         THEN [ok |-> TRUE, kind |-> "number", val |-> "", next |-> jsonDigitsEnd(s, i)]
         ELSE jsonFail

\* the members of an object from i, which is just after '{' or ','
RECURSIVE jsonMembers(_, _)
jsonMembers(s, i) ==
    LET rest(member, more) ==
            IF ~more.ok THEN jsonFail
            ELSE [ok |-> TRUE, members |-> <<member>> \o more.members, next |-> more.next]
        end(member, after) ==
            IF CharAt(s, after) = "}" THEN [ok |-> TRUE, members |-> <<member>>, next |-> after + 1]
            ELSE IF CharAt(s, after) # "," THEN jsonFail
            ELSE rest(member, jsonMembers(s, after + 1))
        valued(key, value) ==
            IF ~value.ok THEN jsonFail
            ELSE end([key |-> key.val, kind |-> value.kind, val |-> value.val],
                     jsonSkipWs(s, value.next))
        colon(key, at) ==
            IF CharAt(s, at) # ":" THEN jsonFail
            ELSE valued(key, jsonValue(s, jsonSkipWs(s, at + 1)))
        keyed(key) == IF ~key.ok THEN jsonFail ELSE colon(key, jsonSkipWs(s, key.next))
    IN  keyed(jsonString(s, jsonSkipWs(s, i)))

\* the whole text: [ok, members, scalar]
jsonParse(s) ==
    LET whole(v, scalar) ==
            IF v.ok /\ jsonSkipWs(s, v.next) = Len(s) + 1
            THEN [ok |-> TRUE, members |-> IF scalar THEN <<>> ELSE v.members, scalar |-> scalar]
            ELSE jsonFail
        object(open) ==
            IF CharAt(s, open) = "}"
            THEN whole([ok |-> TRUE, members |-> <<>>, next |-> open + 1], FALSE)
            ELSE whole(jsonMembers(s, open), FALSE)
        from(i) ==
            IF CharAt(s, i) = "{" THEN object(jsonSkipWs(s, i + 1))
            ELSE whole(jsonValue(s, i), TRUE)
    IN  from(jsonSkipWs(s, 1))

\* every member is written to the map: the element is zeroed, a value that is a string
\* is stored in it, and the element goes under the key whatever the value was
RECURSIVE jsonDecodeMembers(_, _)
jsonDecodeMembers(members, m) ==
    IF members = <<>> THEN m
    ELSE LET h == Head(members)
         IN  jsonDecodeMembers(Tail(members),
                               MapPut(m, h.key, IF h.kind = "string" THEN h.val ELSE ""))

\* [err, m]: the error flag and the map as json.Unmarshal leaves it, starting from m0
jsonUnmarshal(s, m0) ==
    LET decode(p) ==
            IF ~p.ok THEN [err |-> TRUE, m |-> m0]
            ELSE [err |-> p.scalar \/ \E i \in 1..Len(p.members) : p.members[i].kind # "string",
                  m |-> jsonDecodeMembers(p.members, m0)]
    IN  decode(jsonParse(s))

----------------------------------------------------------------------------
(* html/template: Parse and Execute of a tag value against TagTemplate.    *)
(* The templates covered: text with actions {{ .F }} and {{ .F.key }}      *)
(* (field chains; no pipelines, no functions, no trim markers).  What an   *)
(* action prints is HTML-escaped; text outside actions is copied.          *)

tmplFail == [ok |-> FALSE, out |-> ""]

IdentChars == UpperChars \o LowerChars \o DigitChars \o "_"

IsIdent(s) == s # "" /\ \A i \in 1..Len(s) : CharIn(CharAt(s, i), IdentChars)

htmlEscapeChar(c) ==
    CASE c = "&" -> "&amp;"
      [] c = "<" -> "&lt;"
      [] c = ">" -> "&gt;"
      [] c = "\"" -> "&#34;"
      [] c = "'" -> "&#39;"
      [] c = "+" -> "&#43;"
      [] OTHER -> c

RECURSIVE htmlEscape(_)
htmlEscape(s) == IF s = "" THEN "" ELSE htmlEscapeChar(CharAt(s, 1)) \o htmlEscape(Suffix(s, 2))

\* a missing key of a map[string]string evaluates to the zero value ""
tmplMapIndex(m, key) == IF key \in DOMAIN m THEN m[key] ELSE ""

\* the value of the field chain of one action, [ok, out]
tmplEvalField(action, tplData) ==
    LET segs == Split(Suffix(action, 2), ".")
    IN  IF CharAt(action, 1) # "." \/ \E i \in 1..Len(segs) : ~IsIdent(segs[i]) THEN tmplFail
        ELSE IF Len(segs) = 1 /\ segs[1] = "Name" THEN [ok |-> TRUE, out |-> tplData.Name]
        ELSE IF Len(segs) = 1 /\ segs[1] = "Namespace" THEN [ok |-> TRUE, out |-> tplData.Namespace]
        ELSE IF Len(segs) = 2 /\ segs[1] = "Labels"
             THEN [ok |-> TRUE, out |-> tmplMapIndex(tplData.Labels, segs[2])]
        ELSE IF Len(segs) = 2 /\ segs[1] = "Annotations"
             THEN [ok |-> TRUE, out |-> tmplMapIndex(tplData.Annotations, segs[2])]
        ELSE tmplFail

\* template.New("tag").Parse(v) then Execute: [ok, out]
RECURSIVE tmplRender(_, _)
tmplRender(v, tplData) ==
    LET i == Index(v, "{{")
        j == IndexFrom(v, "}}", i + 2)
        act == tmplEvalField(TrimSpace(SubSeq(v, i + 2, j - 1)), tplData)
        rest == tmplRender(Suffix(v, j + 2), tplData)
    IN  IF i = 0 THEN [ok |-> TRUE, out |-> v]
        ELSE IF j = 0 THEN tmplFail
        ELSE IF ~act.ok \/ ~rest.ok THEN tmplFail
        ELSE [ok |-> TRUE, out |-> SubSeq(v, 1, i - 1) \o htmlEscape(act.out) \o rest.out]

----------------------------------------------------------------------------
(* kubernetes.go: the tag builder.                                         *)

\* (mutant of isValidTagName) the name is compared as it is written
isValidTagNameCaseSensitive(name) ==
    IF HasPrefix(name, "kubernetes.io") THEN FALSE
    ELSE IF name = "name" THEN FALSE
    ELSE IF name = "kubernetescluster" THEN FALSE
    ELSE TRUE

isValidTagName(name) ==
    IF HasPrefix(ToLower(name), "kubernetes.io") THEN FALSE
    ELSE IF ToLower(name) = "name" THEN FALSE
    ELSE IF ToLower(name) = "kubernetescluster" THEN FALSE
    ELSE TRUE

\* (mutant of renderTagTemplates) a value whose template fails is emptied
renderTagTemplatesOrEmpty(pvc, tags) ==
    LET tplData == [Name |-> pvc.name, Namespace |-> pvc.namespace,
                    Labels |-> pvc.labels, Annotations |-> pvc.annotations]
    IN  [k \in DOMAIN tags |->
            LET r == tmplRender(tags[k], tplData) IN IF r.ok THEN r.out ELSE ""]

renderTagTemplates(pvc, tags) ==
    LET tplData == [Name |-> pvc.name, Namespace |-> pvc.namespace,
                    Labels |-> pvc.labels, Annotations |-> pvc.annotations]
    IN  [k \in DOMAIN tags |->
            LET r == tmplRender(tags[k], tplData) IN IF r.ok THEN r.out ELSE tags[k]]

\* (mutant of setTags) the restricted-name test dropped from the loop
setTagsUnfiltered(pvc, tags, entries) ==
    IF tags = Panic THEN Panic ELSE MapCopy(tags, entries)

\* one of the three loops of buildTags that copy entries into tags: an entry with a
\* restricted name is skipped unless allowAllTags; counting the skipped entry reads
\* *pvc.Spec.StorageClassName, which panics on a nil pointer
setTags(pvc, tags, entries) ==
    LET restricted == {k \in DOMAIN entries : ~isValidTagName(k)}
        kept == IF allowAllTags THEN DOMAIN entries ELSE (DOMAIN entries) \ restricted
    IN  IF tags = Panic THEN Panic
        ELSE IF restricted # {} /\ ~allowAllTags /\ pvc.storageClassName = NilPtr THEN Panic
        ELSE MapCopy(tags, [k \in kept |-> entries[k]])

\* the labels of the PVC that the copy-labels loop considers
copiedLabels(pvc) ==
    IF Len(copyLabels) > 0
    THEN [k \in {l \in DOMAIN pvc.labels : copyLabels[1] = "*" \/ l \in SeqToSet(copyLabels)}
            |-> pvc.labels[k]]
    ELSE EmptyMap

\* (mutant of tagStringOf) the legacy annotation preferred when both are present
tagStringOfLegacyFirst(annotations) ==
    LET ok == (annotationPrefix \o "/tags") \in DOMAIN annotations
        legacyOk == (legacyAnnotationPrefix \o "/tags") \in DOMAIN annotations
    IN  IF ~ok /\ ~legacyOk THEN [ok |-> FALSE, tagString |-> ""]
        ELSE IF legacyOk THEN [ok |-> TRUE, tagString |-> annotations[legacyAnnotationPrefix \o "/tags"]]
        ELSE [ok |-> TRUE, tagString |-> annotations[annotationPrefix \o "/tags"]]

\* the tags annotation that is read: [ok, tagString]
tagStringOf(annotations) ==
    LET ok == (annotationPrefix \o "/tags") \in DOMAIN annotations
        legacyOk == /\ annotationPrefix = defaultAnnotationPrefix
                    /\ (legacyAnnotationPrefix \o "/tags") \in DOMAIN annotations
    IN  IF ~ok /\ ~legacyOk THEN [ok |-> FALSE, tagString |-> ""]
        ELSE IF ok THEN [ok |-> TRUE, tagString |-> annotations[annotationPrefix \o "/tags"]]
        ELSE [ok |-> TRUE, tagString |-> annotations[legacyAnnotationPrefix \o "/tags"]]

customTagsOf(tagString) ==
    IF tagFormat = "csv" THEN parseCsv(tagString) ELSE jsonUnmarshal(tagString, EmptyMap).m

buildTags(pvc) ==
    LET annotations == pvc.annotations
        ignored == \/ (annotationPrefix \o "/ignore") \in DOMAIN annotations
                   \/ /\ annotationPrefix = defaultAnnotationPrefix
                      /\ (legacyAnnotationPrefix \o "/ignore") \in DOMAIN annotations
        rendered(tags) == IF tags = Panic THEN Panic ELSE renderTagTemplates(pvc, tags)
        withCustom(withLabels, ts) ==
            IF withLabels = Panic THEN Panic
            ELSE IF ~ts.ok THEN renderTagTemplates(pvc, withLabels)
            ELSE rendered(setTags(pvc, withLabels, customTagsOf(ts.tagString)))
    IN  IF ignored
        THEN IF pvc.storageClassName = NilPtr THEN Panic ELSE renderTagTemplates(pvc, EmptyMap)
        ELSE withCustom(setTags(pvc, setTags(pvc, EmptyMap, defaultTags), copiedLabels(pvc)),
                        tagStringOf(annotations))

\* (mutant of defaultTagsAfterBuildTags) buildTags fills and renders defaultTags itself
defaultTagsAfterBuildTagsInPlace(pvc) ==
    IF buildTags(pvc) = Panic THEN defaultTags ELSE buildTags(pvc)

\* what defaultTags holds when buildTags has returned: buildTags copies its entries
\* into the map it has made ("tags := map[string]string{}"), and renderTagTemplates
\* writes the rendered values into that map
defaultTagsAfterBuildTags(pvc) == defaultTags

\* the PVC when buildTags has returned: its labels and annotations are read, by the
\* loops of buildTags and through the TagTemplate, and never written
pvcAfterBuildTags(pvc) == pvc

----------------------------------------------------------------------------
(* kubernetes.go: the provisioner of a PVC and the volume behind it.       *)

AWS_EBS_CSI == "ebs.csi.aws.com"
AWS_EBS_LEGACY == "kubernetes.io/aws-ebs"
AWS_EFS_CSI == "efs.csi.aws.com"
AWS_FSX_CSI == "fsx.csi.aws.com"
AZURE_DISK_CSI == "disk.csi.azure.com"
GCP_PD_CSI == "pd.csi.storage.gke.io"
GCP_PD_LEGACY == "kubernetes.io/gce-pd"

\* a nil volume source of a PersistentVolume (pv.Spec.CSI and the like)
NilSource == [nil |-> TRUE]

\* (mutant of getProvisionedBy) the beta key is read before the key of today
getProvisionedByBetaFirst(annotations) ==
    IF "volume.beta.kubernetes.io/storage-provisioner" \in DOMAIN annotations
    THEN [provisionedBy |-> annotations["volume.beta.kubernetes.io/storage-provisioner"], ok |-> TRUE]
    ELSE IF "volume.kubernetes.io/storage-provisioner" \in DOMAIN annotations
    THEN [provisionedBy |-> annotations["volume.kubernetes.io/storage-provisioner"], ok |-> TRUE]
    ELSE [provisionedBy |-> "", ok |-> FALSE]

\* [provisionedBy, ok]
getProvisionedBy(annotations) ==
    IF "volume.kubernetes.io/storage-provisioner" \in DOMAIN annotations
    THEN [provisionedBy |-> annotations["volume.kubernetes.io/storage-provisioner"], ok |-> TRUE]
    ELSE IF "volume.beta.kubernetes.io/storage-provisioner" \in DOMAIN annotations
    THEN [provisionedBy |-> annotations["volume.beta.kubernetes.io/storage-provisioner"], ok |-> TRUE]
    ELSE [provisionedBy |-> "", ok |-> FALSE]

\* the deprecated storage-class annotation takes the place of the attribute
getPVC(obj) ==
    IF "volume.beta.kubernetes.io/storage-class" \in DOMAIN obj.annotations
    THEN [obj EXCEPT !.storageClassName = obj.annotations["volume.beta.kubernetes.io/storage-class"]]
    ELSE obj

provisionedByAzureDisk(pvc) ==
    /\ getProvisionedBy(pvc.annotations).ok
    /\ getProvisionedBy(pvc.annotations).provisionedBy = AZURE_DISK_CSI

provisionedByAwsEfs(pvc) ==
    /\ getProvisionedBy(pvc.annotations).ok
    /\ getProvisionedBy(pvc.annotations).provisionedBy = AWS_EFS_CSI

provisionedByAwsEbs(pvc) ==
    /\ getProvisionedBy(pvc.annotations).ok
    /\ getProvisionedBy(pvc.annotations).provisionedBy \in {AWS_EBS_LEGACY, AWS_EBS_CSI}

provisionedByAwsFsx(pvc) ==
    /\ getProvisionedBy(pvc.annotations).ok
    /\ getProvisionedBy(pvc.annotations).provisionedBy = AWS_FSX_CSI

provisionedByGcpPD(pvc) ==
    /\ getProvisionedBy(pvc.annotations).ok
    /\ getProvisionedBy(pvc.annotations).provisionedBy \in {GCP_PD_LEGACY, GCP_PD_CSI}

\* awsVolumeRegMatch, "^vol-[^/]*$"
awsVolumeRegMatch(s) == HasPrefix(s, "vol-") /\ Index(s, "/") = 0

\* (mutant of parseAWSEBSVolumeID) the path is returned whatever it matches
parseAWSEBSVolumeIDUnmatched(kubernetesID) ==
    IF ~HasPrefix(kubernetesID, "aws://") THEN kubernetesID
    ELSE LET rest == Suffix(kubernetesID, 7)
             slash == Index(rest, "/")
             path == IF slash = 0 THEN "" ELSE Suffix(rest, slash)
         IN  TrimChar(path, "/")

\* The ids the model ranges over hold no character that url.Parse rejects and no
\* '?' or '#', so that the path of "aws://<host><path>" is what follows the host.
parseAWSEBSVolumeID(kubernetesID) ==
    IF ~HasPrefix(kubernetesID, "aws://") THEN kubernetesID
    ELSE LET rest == Suffix(kubernetesID, 7)
             slash == Index(rest, "/")
             path == IF slash = 0 THEN "" ELSE Suffix(rest, slash)
             awsID == TrimChar(path, "/")
         IN  IF ~awsVolumeRegMatch(awsID) THEN "" ELSE awsID

WordChars == UpperChars \o LowerChars \o DigitChars \o "_"

\* \w+
IsWord(s) == s # "" /\ \A i \in 1..Len(s) : CharIn(CharAt(s, i), WordChars)

\* regexpEFSVolumeID, `^fs-\w+::(fsap-\w+)$`: the access point of the handle
parseAWSEFSVolumeID(k8sVolumeID) ==
    LET sep == Index(k8sVolumeID, "::")
        fs == SubSeq(k8sVolumeID, 1, sep - 1)
        ap == Suffix(k8sVolumeID, sep + 2)
    IN  IF /\ sep # 0
           /\ HasPrefix(fs, "fs-") /\ IsWord(Suffix(fs, 4))
           /\ HasPrefix(ap, "fsap-") /\ IsWord(Suffix(ap, 6))
        THEN ap
        ELSE ""

\* the volume id a provisioner's case of the switch reads from the PV, as
\* [panic, volumeID]: reading through a nil volume source panics
volumeIDOf(provisionedBy, pv) ==
    LET id(s) == [panic |-> FALSE, volumeID |-> s]
        nilDeref == [panic |-> TRUE, volumeID |-> ""]
    IN  CASE provisionedBy = AWS_EBS_CSI ->
                IF pv.csi # NilSource THEN id(pv.csi.volumeHandle)
                ELSE IF pv.awsElasticBlockStore = NilSource THEN nilDeref
                ELSE id(parseAWSEBSVolumeID(pv.awsElasticBlockStore.volumeID))
          [] provisionedBy = AWS_EFS_CSI ->
                IF pv.csi # NilSource THEN id(parseAWSEFSVolumeID(pv.csi.volumeHandle)) ELSE id("")
          [] provisionedBy = AWS_EBS_LEGACY ->
                IF pv.awsElasticBlockStore = NilSource THEN nilDeref
                ELSE id(parseAWSEBSVolumeID(pv.awsElasticBlockStore.volumeID))
          [] provisionedBy \in {AWS_FSX_CSI, AZURE_DISK_CSI, GCP_PD_CSI} ->
                IF pv.csi = NilSource THEN nilDeref ELSE id(pv.csi.volumeHandle)
          [] provisionedBy = GCP_PD_LEGACY ->
                IF pv.gcePersistentDisk = NilSource THEN nilDeref ELSE id(pv.gcePersistentDisk.pdName)
          [] OTHER -> id("")

\* (mutant of processPersistentVolumeClaim) an empty volume id is not an error
processPersistentVolumeClaimWithEmptyID(pvc) ==
    LET failed(n) == [volumeID |-> "", tags |-> EmptyMap, err |-> TRUE, panic |-> FALSE, pvLookups |-> n]
        panicked(n) == [volumeID |-> "", tags |-> EmptyMap, err |-> FALSE, panic |-> TRUE, pvLookups |-> n]
        identified(tags, volumeID) ==
            IF volumeID.panic THEN panicked(1)
            ELSE [volumeID |-> volumeID.volumeID, tags |-> tags, err |-> FALSE, panic |-> FALSE,
                  pvLookups |-> 1]
        looked(tags, by) ==
            IF tags = Panic THEN panicked(0)
            ELSE IF pvc.volumeName \notin DOMAIN pvs THEN failed(1)
            ELSE IF pvc.annotations = EmptyMap THEN failed(1)
            ELSE IF ~by.ok THEN failed(1)
            ELSE identified(tags, volumeIDOf(by.provisionedBy, pvs[pvc.volumeName]))
    IN  looked(buildTags(pvc), getProvisionedBy(pvc.annotations))

\* [volumeID, tags, err, panic, pvLookups]: pvLookups counts the requests for the
\* PersistentVolume, and tags is nil (the empty map) whenever err is set
processPersistentVolumeClaim(pvc) ==
    LET failed(n) == [volumeID |-> "", tags |-> EmptyMap, err |-> TRUE, panic |-> FALSE, pvLookups |-> n]
        panicked(n) == [volumeID |-> "", tags |-> EmptyMap, err |-> FALSE, panic |-> TRUE, pvLookups |-> n]
        identified(tags, volumeID) ==
            IF volumeID.panic THEN panicked(1)
            ELSE IF Len(volumeID.volumeID) = 0 THEN failed(1)
            ELSE [volumeID |-> volumeID.volumeID, tags |-> tags, err |-> FALSE, panic |-> FALSE,
                  pvLookups |-> 1]
        looked(tags, by) ==
            IF tags = Panic THEN panicked(0)
            ELSE IF pvc.volumeName \notin DOMAIN pvs THEN failed(1)
            ELSE IF pvc.annotations = EmptyMap THEN failed(1)
            ELSE IF ~by.ok THEN failed(1)
            ELSE identified(tags, volumeIDOf(by.provisionedBy, pvs[pvc.volumeName]))
    IN  looked(buildTags(pvc), getProvisionedBy(pvc.annotations))

----------------------------------------------------------------------------
(* The cloud collaborators.  Each takes the tags the volume carries and    *)
(* ok, the cloud's answer (TRUE when every request of the call succeeds),  *)
(* and gives the tags the volume carries afterwards.                       *)

\* aws.go: CreateTags / TagResource overwrite or add the given tags
addEBSVolumeTags(existing, volumeID, tags, ok) == IF ok THEN MapCopy(existing, tags) ELSE existing

\* aws.go: DeleteTags with keys only removes the tags of these keys
deleteEBSVolumeTags(existing, volumeID, tags, ok) == IF ok THEN MapRemove(existing, tags) ELSE existing

addEFSVolumeTags(existing, volumeID, tags, ok) == IF ok THEN MapCopy(existing, tags) ELSE existing

deleteEFSVolumeTags(existing, volumeID, tags, ok) == IF ok THEN MapRemove(existing, tags) ELSE existing

\* DescribeFileSystems, then TagResource on the ARN found
addFSxVolumeTags(existing, volumeID, tags, ok) == IF ok THEN MapCopy(existing, tags) ELSE existing

\* DescribeVolumes, then UntagResource on the ARN found
deleteFSxVolumeTags(existing, volumeID, tags, ok) == IF ok THEN MapRemove(existing, tags) ELSE existing

\* the resources of FSx: a file system, and a volume of it, by id
fsxFileSystems == [id \in {"fs-1"} |-> "arn:aws:fsx:us-east-1:1:file-system/fs-1"]

fsxVolumes == [id \in {"fsvol-1"} |-> "arn:aws:fsx:us-east-1:1:volume/fs-1/fsvol-1"]

\* [err, arns]: FSx answers a describe request for an id that is not one of a
\* resource of the kind asked for with an error
DescribeFileSystems(id) ==
    IF id \in DOMAIN fsxFileSystems THEN [err |-> FALSE, arns |-> <<fsxFileSystems[id]>>]
    ELSE [err |-> TRUE, arns |-> <<>>]

DescribeVolumes(id) ==
    IF id \in DOMAIN fsxVolumes THEN [err |-> FALSE, arns |-> <<fsxVolumes[id]>>]
    ELSE [err |-> TRUE, arns |-> <<>>]

\* [err, arn]: the resource that addFSxVolumeTags tags, FileSystems[0] of its describe
\* request ("" when the request fails and nothing is tagged)
resourceOfAddFSxVolumeTags(volumeID) ==
    IF DescribeFileSystems(volumeID).err THEN [err |-> TRUE, arn |-> ""]
    ELSE [err |-> FALSE, arn |-> DescribeFileSystems(volumeID).arns[1]]

\* [err, arn]: the resource that deleteFSxVolumeTags untags, Volumes[0] of its describe
\* request
resourceOfDeleteFSxVolumeTags(volumeID) ==
    IF DescribeVolumes(volumeID).err THEN [err |-> TRUE, arn |-> ""]
    ELSE [err |-> FALSE, arn |-> DescribeVolumes(volumeID).arns[1]]

\* strings.NewReplacer("/", "_", ".", "-").Replace
RECURSIVE gcpReplace(_)
gcpReplace(s) ==
    IF s = "" THEN ""
    ELSE (IF CharAt(s, 1) = "/" THEN "_" ELSE IF CharAt(s, 1) = "." THEN "-" ELSE CharAt(s, 1))
            \o gcpReplace(Suffix(s, 2))

\* strings.TrimRight(s, "-_")
RECURSIVE gcpTrimRight(_)
gcpTrimRight(s) ==
    IF s # "" /\ CharAt(s, Len(s)) \in {"-", "_"} THEN gcpTrimRight(SubSeq(s, 1, Len(s) - 1)) ELSE s

sanitizeKeyForGCP(key) ==
    LET k == gcpTrimRight(gcpReplace(ToLower(key)))
    IN  IF Len(k) > 63 THEN SubSeq(k, 1, 63) ELSE k

sanitizeValueForGCP(value) == IF Len(value) > 63 THEN SubSeq(value, 1, 63) ELSE value

\* order is the order in which the range over the map visits its keys: of the
\* keys that sanitize to the same key, the one visited last leaves its value
sanitizeLabelsForGCP(labels, order) ==
    LET lastOf(k) == order[CHOOSE i \in 1..Len(order) :
                              /\ sanitizeKeyForGCP(order[i]) = k
                              /\ \A j \in (i + 1)..Len(order) : sanitizeKeyForGCP(order[j]) # k]
    IN  [k \in {sanitizeKeyForGCP(x) : x \in DOMAIN labels} |-> sanitizeValueForGCP(labels[lastOf(k)])]

sanitizeKeysForGCP(keys) == {sanitizeKeyForGCP(k) : k \in keys}

\* [err, panic, project, location, name]: the handle is split at "/"; with exactly
\* five parts the read of parts[5] is out of range
parseVolumeID(id) ==
    LET parts == Split(id, "/")
    IN  IF Len(parts) < 5
        THEN [err |-> TRUE, panic |-> FALSE, project |-> "", location |-> "", name |-> ""]
        ELSE IF Len(parts) < 6
        THEN [err |-> FALSE, panic |-> TRUE, project |-> "", location |-> "", name |-> ""]
        ELSE [err |-> FALSE, panic |-> FALSE,
              project |-> parts[2], location |-> parts[4], name |-> parts[6]]

\* (mutant of addPDVolumeLabels) the labels are written back without the comparison
addPDVolumeLabelsAlways(existing, volumeID, labels, order, getOk, setOk) ==
    LET stopped(panic) == [panic |-> panic, err |-> ~panic, remote |-> existing, sets |-> <<>>]
        set(updatedLabels) ==
            [panic |-> FALSE, err |-> ~setOk, remote |-> IF setOk THEN updatedLabels ELSE existing,
             sets |-> <<updatedLabels>>]
        merge(id, sanitizedLabels) ==
            IF id.panic THEN stopped(TRUE)
            ELSE IF id.err \/ ~getOk THEN stopped(FALSE)
            ELSE set(MapCopy(existing, sanitizedLabels))
    IN  merge(parseVolumeID(volumeID), sanitizeLabelsForGCP(labels, order))

\* [panic, err, remote, sets]: the labels of the disk are read (GetDisk, which getOk
\* answers), merged with the sanitized labels and written back (SetDiskLabels, which
\* setOk answers) unless the merge changes nothing; sets holds the labels of every
\* SetDiskLabels request, remote the labels of the disk afterwards
addPDVolumeLabels(existing, volumeID, labels, order, getOk, setOk) ==
    LET stopped(panic) == [panic |-> panic, err |-> ~panic, remote |-> existing, sets |-> <<>>]
        set(updatedLabels) ==
            IF updatedLabels = existing
            THEN [panic |-> FALSE, err |-> FALSE, remote |-> existing, sets |-> <<>>]
            ELSE [panic |-> FALSE, err |-> ~setOk,
                  remote |-> IF setOk THEN updatedLabels ELSE existing, sets |-> <<updatedLabels>>]
        merge(id, sanitizedLabels) ==
            IF id.panic THEN stopped(TRUE)
            ELSE IF id.err \/ ~getOk THEN stopped(FALSE)
            ELSE set(MapCopy(existing, sanitizedLabels))
    IN  merge(parseVolumeID(volumeID), sanitizeLabelsForGCP(labels, order))

\* (mutant of deletePDVolumeLabels) the keys are looked up as they are given
deletePDVolumeLabelsUnsanitized(existing, volumeID, keys, getOk, setOk) ==
    LET stopped(panic, err) == [panic |-> panic, err |-> err, remote |-> existing, sets |-> <<>>]
        set(updatedLabels) ==
            IF updatedLabels = existing THEN stopped(FALSE, FALSE)
            ELSE [panic |-> FALSE, err |-> ~setOk,
                  remote |-> IF setOk THEN updatedLabels ELSE existing, sets |-> <<updatedLabels>>]
        remove(id, sanitizedKeys) ==
            IF id.panic THEN stopped(TRUE, FALSE)
            ELSE IF id.err \/ ~getOk THEN stopped(FALSE, TRUE)
            ELSE set(MapRemove(existing, sanitizedKeys))
    IN  IF keys = {} THEN stopped(FALSE, FALSE)
        ELSE remove(parseVolumeID(volumeID), keys)

\* [panic, err, remote, sets]: the labels of the disk are read, relieved of the
\* sanitized keys and written back unless that changes nothing
deletePDVolumeLabels(existing, volumeID, keys, getOk, setOk) ==
    LET stopped(panic, err) == [panic |-> panic, err |-> err, remote |-> existing, sets |-> <<>>]
        set(updatedLabels) ==
            IF updatedLabels = existing THEN stopped(FALSE, FALSE)
            ELSE [panic |-> FALSE, err |-> ~setOk,
                  remote |-> IF setOk THEN updatedLabels ELSE existing, sets |-> <<updatedLabels>>]
        remove(id, sanitizedKeys) ==
            IF id.panic THEN stopped(TRUE, FALSE)
            ELSE IF id.err \/ ~getOk THEN stopped(FALSE, TRUE)
            ELSE set(MapRemove(existing, sanitizedKeys))
    IN  IF keys = {} THEN stopped(FALSE, FALSE)
        ELSE remove(parseVolumeID(volumeID), sanitizeKeysForGCP(keys))

\* (mutant of parseAzureVolumeID) an id of more than nine fields is taken
parseAzureVolumeIDOfNineOrMore(volumeID) ==
    LET fields == Split(volumeID, "/")
    IN  IF Len(fields) < 9
        THEN [err |-> TRUE, subscription |-> "", resourceGroup |-> "", diskName |-> ""]
        ELSE [err |-> FALSE, subscription |-> fields[3], resourceGroup |-> fields[5],
              diskName |-> fields[9]]

\* wait.PollUntilContextTimeout(context.TODO(), time.Second, time.Minute, false, ...),
\* in seconds
pollInterval == 1

pollTimeout == 60

\* (mutant of contextDone) the context of the poll has no deadline
contextNeverDone(elapsed) == FALSE

\* the context of the poll is done when the timeout has elapsed
contextDone(elapsed) == elapsed >= pollTimeout

\* [done, err] of the status of the operation that GetGCEOp returned; "error" stands
\* for an error of GetGCEOp
waitForCompletion(status) == [done |-> status = "DONE", err |-> status = "error"]

\* azure.go: [err, subscription, resourceGroup, diskName]
parseAzureVolumeID(volumeID) ==
    LET fields == Split(volumeID, "/")
    IN  IF Len(fields) # 9
        THEN [err |-> TRUE, subscription |-> "", resourceGroup |-> "", diskName |-> ""]
        ELSE [err |-> FALSE, subscription |-> fields[3], resourceGroup |-> fields[5],
              diskName |-> fields[9]]

\* the characters of a tag name that Azure forbids are removed
RECURSIVE azureRemoveForbidden(_)
azureRemoveForbidden(s) ==
    IF s = "" THEN ""
    ELSE (IF CharIn(CharAt(s, 1), "<>%&\\?/") THEN "" ELSE CharAt(s, 1))
            \o azureRemoveForbidden(Suffix(s, 2))

sanitizeKeyForAzure(s) ==
    LET k == azureRemoveForbidden(s)
    IN  IF Len(k) > 512 THEN SubSeq(k, 1, 512) ELSE k

ErrAzureTooManyTags == "Only up to 50 tags can be set on an azure resource"
ErrAzureValueToLong == "A value can only contain 256 characters"

\* (mutant of sanitizeValueForAzure) a value that is too long is cut
sanitizeValueForAzureTruncating(s) ==
    IF Len(s) > 256 THEN [err |-> FALSE, value |-> SubSeq(s, 1, 256)]
    ELSE [err |-> FALSE, value |-> s]

\* [err, value]
sanitizeValueForAzure(s) ==
    IF Len(s) > 256 THEN [err |-> TRUE, value |-> ""] ELSE [err |-> FALSE, value |-> s]

\* [err, kind, diskTags], with order as in sanitizeLabelsForGCP; kind is the error
\* that err wraps ("" without an error), and diskTags is empty for the nil map
sanitizeLabelsForAzure(tags, order) ==
    LET lastOf(k) == order[CHOOSE i \in 1..Len(order) :
                              /\ sanitizeKeyForAzure(order[i]) = k
                              /\ \A j \in (i + 1)..Len(order) : sanitizeKeyForAzure(order[j]) # k]
    IN  IF Cardinality(DOMAIN tags) > 50
        THEN [err |-> TRUE, kind |-> ErrAzureTooManyTags, diskTags |-> EmptyMap]
        ELSE IF \E k \in DOMAIN tags : sanitizeValueForAzure(tags[k]).err
        THEN [err |-> TRUE, kind |-> ErrAzureValueToLong, diskTags |-> EmptyMap]
        ELSE [err |-> FALSE, kind |-> "",
              diskTags |-> [k \in {sanitizeKeyForAzure(x) : x \in DOMAIN tags} |->
                               sanitizeValueForAzure(tags[lastOf(k)]).value]]

\* maps.Equal(existingTags, updatedTags) of two map[string]*string compares the
\* pointers: updatedTags holds the pointers of existingTags but for the keys of
\* sanitizedLabels, whose pointers are new, and for the keys that were deleted
azurePointersEqual(existingTags, sanitizedLabels, updatedTags) ==
    /\ DOMAIN updatedTags = DOMAIN existingTags
    /\ (DOMAIN sanitizedLabels) \cap (DOMAIN updatedTags) = {}

\* [err, kind, remote, gets, sets]: the tags of the disk are read (GetDiskTags, which
\* getOk answers), merged with the sanitized tags, relieved of removedTags and written
\* back (SetDiskTags, which setOk answers) unless maps.Equal finds them equal to the
\* tags read; gets counts the GetDiskTags requests, sets holds the tags of every
\* SetDiskTags request, kind is the error returned ("" without an error)
UpdateAzureVolumeTags(existing, volumeID, tags, removedTags, order, getOk, setOk) ==
    LET stopped(kind, gets) ==
            [err |-> TRUE, kind |-> kind, remote |-> existing, gets |-> gets, sets |-> <<>>]
        set(sanitizedLabels, updatedTags) ==
            IF azurePointersEqual(existing, sanitizedLabels, updatedTags)
            THEN [err |-> FALSE, kind |-> "", remote |-> existing, gets |-> 1, sets |-> <<>>]
            ELSE [err |-> ~setOk, kind |-> IF setOk THEN "" ELSE "SetDiskTags",
                  remote |-> IF setOk THEN updatedTags ELSE existing,
                  gets |-> 1, sets |-> <<updatedTags>>]
        merge(sanitizedLabels) ==
            IF sanitizedLabels.err THEN stopped(sanitizedLabels.kind, 0)
            ELSE IF parseAzureVolumeID(volumeID).err THEN stopped("invalid volume id", 0)
            ELSE IF ~getOk THEN stopped("GetDiskTags", 1)
            ELSE set(sanitizedLabels.diskTags,
                     MapRemove(MapCopy(existing, sanitizedLabels.diskTags), removedTags))
    IN  merge(sanitizeLabelsForAzure(tags, order))

----------------------------------------------------------------------------
(* kubernetes.go: the handlers of the informer's events.  A handler's      *)
(* outcome is [calls, pvLookups, panic, remote]: the calls to the cloud    *)
(* collaborators in the order they were made (each has returned before the *)
(* next is made), the number of requests for the PersistentVolume, whether *)
(* the handler panicked, and the tags the volume carries afterwards.       *)
(* A call's ok tells whether it succeeded.                                 *)
(* The parameters stand for what the handler does not decide: order, the   *)
(* order in which a range visits the keys of the tags; last, the key of    *)
(* the old tags that the range over them visits last; addOk and delOk, the *)
(* cloud's answers to the first and the second call.  In the handlers'    *)
(* runs a call that the cloud fails is failed at its first request: a      *)
(* failure of the write leaves the same record of calls and the same tags. *)

\* (mutant of Outcome) the calls in the reverse of the order they are made in
OutcomeCallsReversed(calls, n, panic, rem) ==
    [calls |-> [i \in 1..Len(calls) |-> calls[Len(calls) + 1 - i]], pvLookups |-> n,
     panic |-> panic, remote |-> rem]

Outcome(calls, n, panic, rem) ==
    [calls |-> calls, pvLookups |-> n, panic |-> panic, remote |-> rem]

AddCall(fn, volumeID, tags, storageclass, ok) ==
    [fn |-> fn, op |-> "add", volumeID |-> volumeID, tags |-> tags, keys |-> {},
     storageclass |-> storageclass, ok |-> ok]

DeleteCall(fn, volumeID, keys, storageclass, ok) ==
    [fn |-> fn, op |-> "delete", volumeID |-> volumeID, tags |-> EmptyMap, keys |-> keys,
     storageclass |-> storageclass, ok |-> ok]

AzureCall(volumeID, tags, removedTags, storageclass, ok) ==
    [fn |-> "UpdateAzureVolumeTags", op |-> "update", volumeID |-> volumeID, tags |-> tags,
     keys |-> removedTags, storageclass |-> storageclass, ok |-> ok]

AddFuncOutcome(obj, existing, order, addOk) ==
    LET handle(pvc, p, sc) ==
            LET none == Outcome(<<>>, p.pvLookups, FALSE, existing)
                crash == Outcome(<<>>, p.pvLookups, TRUE, existing)
                add(fn, after) ==
                    Outcome(<<AddCall(fn, p.volumeID, p.tags, sc, addOk)>>, p.pvLookups, FALSE, after)
                addPD(pd) ==
                    Outcome(<<AddCall("addPDVolumeLabels", p.volumeID, p.tags, sc, ~pd.err)>>,
                            p.pvLookups, pd.panic, pd.remote)
                update(azure) ==
                    Outcome(<<AzureCall(p.volumeID, p.tags, {}, sc, ~azure.err)>>, p.pvLookups,
                            FALSE, azure.remote)
            IN  IF p.panic THEN crash
                ELSE IF p.err \/ p.tags = EmptyMap THEN none
                ELSE CASE cloud = AWS ->
                            IF /\ ~provisionedByAwsEfs(pvc)
                               /\ ~provisionedByAwsEbs(pvc)
                               /\ ~provisionedByAwsFsx(pvc)
                            THEN none
                            ELSE IF sc = NilPtr THEN crash
                            ELSE IF provisionedByAwsEfs(pvc)
                            THEN add("addEFSVolumeTags",
                                     addEFSVolumeTags(existing, p.volumeID, p.tags, addOk))
                            ELSE IF provisionedByAwsEbs(pvc)
                            THEN add("addEBSVolumeTags",
                                     addEBSVolumeTags(existing, p.volumeID, p.tags, addOk))
                            ELSE add("addFSxVolumeTags",
                                     addFSxVolumeTags(existing, p.volumeID, p.tags, addOk))
                       [] cloud = AZURE ->
                            IF ~provisionedByAzureDisk(pvc) THEN none
                            ELSE IF sc = NilPtr THEN crash
                            ELSE update(UpdateAzureVolumeTags(existing, p.volumeID, p.tags, {},
                                                              order, addOk, addOk))
                       [] cloud = GCP ->
                            IF ~provisionedByGcpPD(pvc) THEN none
                            ELSE IF sc = NilPtr THEN crash
                            ELSE addPD(addPDVolumeLabels(existing, p.volumeID, p.tags, order, addOk, addOk))
                       [] OTHER -> none
    IN  handle(getPVC(obj), processPersistentVolumeClaim(getPVC(obj)), getPVC(obj).storageClassName)

\* the AWS case of UpdateFunc
UpdateAWS(oldPVC, newPVC, p, oldTags, existing, last, addOk, delOk) ==
    LET tags == p.tags
        fnOf(efs, ebs, fsx) ==
            IF provisionedByAwsEfs(newPVC) THEN efs
            ELSE IF provisionedByAwsEbs(newPVC) THEN ebs ELSE fsx
        \* every element of deletedTagsPtr is &k: the addresses are those of one
        \* variable per iteration, or the address of the one variable of the loop
        deletedTagsPtr(deletedTags) == IF loopVarPerIteration THEN deletedTags ELSE {last}
        delete(adds, afterAdd, deletedTags, keys) ==
            IF oldTags = Panic THEN Outcome(adds, p.pvLookups, TRUE, afterAdd)
            ELSE IF deletedTags = {} THEN Outcome(adds, p.pvLookups, FALSE, afterAdd)
            ELSE IF oldPVC.storageClassName = NilPtr THEN Outcome(adds, p.pvLookups, TRUE, afterAdd)
            ELSE Outcome(adds \o <<DeleteCall(fnOf("deleteEFSVolumeTags", "deleteEBSVolumeTags",
                                                   "deleteFSxVolumeTags"),
                                              p.volumeID, keys, oldPVC.storageClassName, delOk)>>,
                         p.pvLookups, FALSE,
                         fnOf(deleteEFSVolumeTags(afterAdd, p.volumeID, keys, delOk),
                              deleteEBSVolumeTags(afterAdd, p.volumeID, keys, delOk),
                              deleteFSxVolumeTags(afterAdd, p.volumeID, keys, delOk)))
        diff(adds, afterAdd, deletedTags) ==
            delete(adds, afterAdd, deletedTags,
                   fnOf(deletedTags, deletedTags, deletedTagsPtr(deletedTags)))
        reconcile(adds, afterAdd) == diff(adds, afterAdd, (DOMAIN oldTags) \ (DOMAIN tags))
    IN  IF ~provisionedByAwsEfs(newPVC) /\ ~provisionedByAwsEbs(newPVC) /\ ~provisionedByAwsFsx(newPVC)
        THEN Outcome(<<>>, p.pvLookups, FALSE, existing)
        ELSE IF tags = EmptyMap THEN reconcile(<<>>, existing)
        ELSE IF newPVC.storageClassName = NilPtr THEN Outcome(<<>>, p.pvLookups, TRUE, existing)
        ELSE reconcile(<<AddCall(fnOf("addEFSVolumeTags", "addEBSVolumeTags", "addFSxVolumeTags"),
                                 p.volumeID, tags, newPVC.storageClassName, addOk)>>,
                       fnOf(addEFSVolumeTags(existing, p.volumeID, tags, addOk),
                            addEBSVolumeTags(existing, p.volumeID, tags, addOk),
                            addFSxVolumeTags(existing, p.volumeID, tags, addOk)))

\* the AZURE case of UpdateFunc
UpdateAzure(oldPVC, newPVC, p, oldTags, existing, order, addOk) ==
    LET tags == p.tags
        sc == newPVC.storageClassName
        update(deletedTags, azure) ==
            Outcome(<<AzureCall(p.volumeID, tags, deletedTags, sc, ~azure.err)>>, p.pvLookups,
                    FALSE, azure.remote)
        diff(deletedTags) ==
            update(deletedTags,
                   UpdateAzureVolumeTags(existing, p.volumeID, tags, deletedTags, order, addOk,
                                         addOk))
    IN  \* "if !provisionedByAzureDisk(newPVC) {": the update is for the other PVCs
        IF provisionedByAzureDisk(newPVC) THEN Outcome(<<>>, p.pvLookups, FALSE, existing)
        ELSE IF oldTags = Panic THEN Outcome(<<>>, p.pvLookups, TRUE, existing)
        ELSE IF sc = NilPtr THEN Outcome(<<>>, p.pvLookups, TRUE, existing)
        ELSE diff((DOMAIN oldTags) \ (DOMAIN tags))

\* the GCP case of UpdateFunc
UpdateGCP(oldPVC, newPVC, p, oldTags, existing, order, addOk, delOk) ==
    LET tags == p.tags
        sc == newPVC.storageClassName
        deleted(adds, deletedTags, pd) ==
            Outcome(adds \o <<DeleteCall("deletePDVolumeLabels", p.volumeID, deletedTags, sc, ~pd.err)>>,
                    p.pvLookups, pd.panic, pd.remote)
        delete(adds, afterAdd, deletedTags) ==
            IF oldTags = Panic THEN Outcome(adds, p.pvLookups, TRUE, afterAdd)
            ELSE IF deletedTags = {} THEN Outcome(adds, p.pvLookups, FALSE, afterAdd)
            ELSE IF sc = NilPtr THEN Outcome(adds, p.pvLookups, TRUE, afterAdd)
            ELSE deleted(adds, deletedTags,
                         deletePDVolumeLabels(afterAdd, p.volumeID, deletedTags, delOk, delOk))
        added(pd) ==
            IF pd.panic
            THEN Outcome(<<AddCall("addPDVolumeLabels", p.volumeID, tags, sc, FALSE)>>,
                         p.pvLookups, TRUE, pd.remote)
            ELSE delete(<<AddCall("addPDVolumeLabels", p.volumeID, tags, sc, ~pd.err)>>,
                        pd.remote, (DOMAIN oldTags) \ (DOMAIN tags))
    IN  IF ~provisionedByGcpPD(newPVC) THEN Outcome(<<>>, p.pvLookups, FALSE, existing)
        ELSE IF tags = EmptyMap THEN delete(<<>>, existing, (DOMAIN oldTags) \ (DOMAIN tags))
        ELSE IF sc = NilPtr THEN Outcome(<<>>, p.pvLookups, TRUE, existing)
        ELSE added(addPDVolumeLabels(existing, p.volumeID, tags, order, addOk, addOk))

\* (mutant of skipUpdate) the PVC that is being deleted is reconciled all the same
skipUpdateButForDeletion(oldPVC, newPVC) ==
    \/ newPVC.resourceVersion = oldPVC.resourceVersion
    \/ newPVC.volumeName = ""

\* the three early returns of UpdateFunc
skipUpdate(oldPVC, newPVC) ==
    \/ newPVC.resourceVersion = oldPVC.resourceVersion
    \/ newPVC.volumeName = ""
    \/ newPVC.deletionTimestamp # NilPtr

UpdateFuncOutcome(old, new, existing, order, last, addOk, delOk) ==
    LET handle(oldPVC, newPVC, p, oldTags) ==
            IF skipUpdate(oldPVC, newPVC) THEN Outcome(<<>>, 0, FALSE, existing)
            ELSE IF p.panic THEN Outcome(<<>>, p.pvLookups, TRUE, existing)
            ELSE IF p.err THEN Outcome(<<>>, p.pvLookups, FALSE, existing)
            ELSE CASE cloud = AWS ->
                        UpdateAWS(oldPVC, newPVC, p, oldTags, existing, last, addOk, delOk)
                   [] cloud = AZURE ->
                        UpdateAzure(oldPVC, newPVC, p, oldTags, existing, order, addOk)
                   [] cloud = GCP ->
                        UpdateGCP(oldPVC, newPVC, p, oldTags, existing, order, addOk, delOk)
                   [] OTHER -> Outcome(<<>>, p.pvLookups, FALSE, existing)
    IN  handle(getPVC(old), getPVC(new), processPersistentVolumeClaim(getPVC(new)),
               buildTags(getPVC(old)))

----------------------------------------------------------------------------
(* The objects and configurations the model ranges over.                   *)

\* the most annotations a PVC of the tag-builder runs carries
MaxAnnotations == 2

IgnoreAnnotations ==
    {"k8s-pvc-tagger/ignore", "aws-ebs-tagger/ignore", "something-else/ignore"}

TagsAnnotations ==
    {"k8s-pvc-tagger/tags", "aws-ebs-tagger/tags", "something-else/tags"}

TagStrings ==
    {"{\"a\": \"x\", \"Name\": \"x\"}", "{\"a\": \"y\", \"b\": \"{{ .Name }}\"}",
     "a=z,Name=z, b={{ .Name }}"}

\* values of the tags annotation that do not decode, that decode in part, and whose
\* templates fail or name a label that the PVC lacks
UndecodableTagStrings == {"'asdas:\"asdasd\"", "{\"a\": \"x\", \"b\": 1}"}

TemplateTagStrings ==
    {"{\"a\": \"{{ .Blah }}-{{ .Name }}\", \"b\": \"{{ .Name }}-{{ .Labels.nope }}\"}"}

AnnotationValues(name) ==
    IF name = "k8s-pvc-tagger/tags"
    THEN TagStrings \cup UndecodableTagStrings \cup TemplateTagStrings
    ELSE IF name \in TagsAnnotations THEN TagStrings
    ELSE IF name = "k8s-pvc-tagger/ignore" THEN {"true"}
    ELSE {""}

AnnotationMaps(names, max) ==
    UNION {{f \in [ns -> TagStrings \cup UndecodableTagStrings \cup TemplateTagStrings
                                    \cup {"", "true"}] : \A n \in ns : f[n] \in AnnotationValues(n)} :
             ns \in {x \in SUBSET names : Cardinality(x) <= max}}

LabelMaps == {EmptyMap, [k \in {"a", "c", "kubernetes.io/x"} |-> "lab"]}

DefaultTagsChoices ==
    {EmptyMap, ("a" :> "def") @@ ("d" :> "{{ .Namespace }}") @@ ("KubernetesCluster" :> "def")}

BuildPVCs ==
    {[name |-> "my-pvc", namespace |-> "my-namespace", labels |-> l, annotations |-> a,
      storageClassName |-> sc] :
        l \in LabelMaps,
        a \in AnnotationMaps(IgnoreAnnotations \cup TagsAnnotations, MaxAnnotations),
        sc \in {NilPtr, "gp3"}}

NoCall == [fn |-> "none"]

InitConfig ==
    /\ cloud \in {AWS, GCP, AZURE}
    /\ annotationPrefix \in {defaultAnnotationPrefix, "something-else"}
    /\ defaultTags \in DefaultTagsChoices
    /\ copyLabels \in {<<>>, <<"*">>}
    /\ tagFormat \in {"json", "csv"}
    /\ allowAllTags \in BOOLEAN
    /\ loopVarPerIteration \in BOOLEAN

----------------------------------------------------------------------------
(* The tag builder called directly, as the tests of kubernetes_test.go     *)
(* call it: one call of buildTags on one PVC under one configuration.      *)

InitBuild ==
    /\ InitConfig
    /\ cloud = AWS
    /\ loopVarPerIteration = TRUE
    /\ pvs = EmptyMap
    /\ store = NoObject
    /\ remote = EmptyMap
    /\ ev = [kind |-> "none"]
    /\ crashed = FALSE
    /\ call = NoCall

CallBuildTags ==
    /\ call = NoCall
    /\ \E pvc \in BuildPVCs :
          call' = [fn |-> "buildTags", arg |-> pvc, ret |-> buildTags(pvc)]
    /\ UNCHANGED <<config, pvs, store, remote, ev, crashed>>

NextBuild == CallBuildTags

SpecBuild == InitBuild /\ [][NextBuild]_vars

----------------------------------------------------------------------------
(* The tag builder under the values of the flag --copy-labels: one call of *)
(* buildTags on one labelled PVC.                                          *)

\* values of --copy-labels: none, the star, names, the star among names
CopyLabelsFlags == {"", "*", "a", "*,a", "a,*", "a,,c", "zz"}

CopyLabelMaps == LabelMaps \cup {[k \in {"a"} |-> "lab"]}

CopyPVCs ==
    {[name |-> "my-pvc", namespace |-> "my-namespace", labels |-> l, annotations |-> a,
      storageClassName |-> sc] :
        l \in CopyLabelMaps,
        a \in {EmptyMap, [k \in {"k8s-pvc-tagger/tags"} |-> "{\"a\": \"x\"}"]},
        sc \in {NilPtr, "gp3"}}

InitCopyLabels ==
    /\ cloud = AWS
    /\ annotationPrefix = defaultAnnotationPrefix
    /\ defaultTags \in {EmptyMap, [k \in {"d"} |-> "def"]}
    /\ copyLabels \in {parseCopyLabels(f) : f \in CopyLabelsFlags}
    /\ tagFormat = "json"
    /\ allowAllTags \in BOOLEAN
    /\ loopVarPerIteration = TRUE
    /\ pvs = EmptyMap
    /\ store = NoObject
    /\ remote = EmptyMap
    /\ ev = [kind |-> "none"]
    /\ crashed = FALSE
    /\ call = NoCall

CallBuildTagsOfLabels ==
    /\ call = NoCall
    /\ \E pvc \in CopyPVCs :
          call' = [fn |-> "buildTags", arg |-> pvc, ret |-> buildTags(pvc)]
    /\ UNCHANGED <<config, pvs, store, remote, ev, crashed>>

NextCopyLabels == CallBuildTagsOfLabels

SpecCopyLabels == InitCopyLabels /\ [][NextCopyLabels]_vars

----------------------------------------------------------------------------
(* The tag builder called again and again under one configuration: every   *)
(* call is recorded with the configuration before and after it.            *)

\* the most calls of buildTags in a run
MaxCalls == 2

RepeatPVCs ==
    {[name |-> "my-pvc", namespace |-> "my-namespace", labels |-> l, annotations |-> a,
      storageClassName |-> sc] :
        l \in LabelMaps,
        a \in {EmptyMap, [k \in {"k8s-pvc-tagger/tags"} |-> "{\"a\": \"y\", \"b\": \"{{ .Name }}\"}"],
               [k \in {"k8s-pvc-tagger/ignore"} |-> "true"]},
        sc \in {NilPtr, "gp3"}}

InitRepeat ==
    /\ cloud = AWS
    /\ annotationPrefix = defaultAnnotationPrefix
    /\ defaultTags \in DefaultTagsChoices
    /\ copyLabels \in {<<>>, <<"*">>}
    /\ tagFormat = "json"
    /\ allowAllTags \in BOOLEAN
    /\ loopVarPerIteration = TRUE
    /\ pvs = EmptyMap
    /\ store = NoObject
    /\ remote = EmptyMap
    /\ ev = [kind |-> "none", calls |-> <<>>]
    /\ crashed = FALSE
    /\ call = NoCall

\* a call that panics ends the run
CallBuildTagsAgain ==
    /\ ~crashed
    /\ Len(ev.calls) < MaxCalls
    /\ \E pvc \in RepeatPVCs :
          /\ defaultTags' = defaultTagsAfterBuildTags(pvc)
          /\ UNCHANGED <<cloud, annotationPrefix, copyLabels, tagFormat, allowAllTags,
                         loopVarPerIteration>>
          /\ call' = [fn |-> "buildTags", arg |-> pvc, ret |-> buildTags(pvc),
                      pvc |-> pvcAfterBuildTags(pvc), before |-> config, after |-> config']
          /\ ev' = [kind |-> "calls", calls |-> Append(ev.calls, call')]
          /\ crashed' = (buildTags(pvc) = Panic)
    /\ UNCHANGED <<pvs, store, remote>>

NextRepeat == CallBuildTagsAgain

SpecRepeat == InitRepeat /\ [][NextRepeat]_vars

----------------------------------------------------------------------------
(* The reconciler: one PVC, the PersistentVolumes of the cluster, and the  *)
(* tags of the cloud volume behind the PVC.                                *)

ProvisionerAnnotation == "volume.kubernetes.io/storage-provisioner"

\* the PersistentVolume that a provisioner has made, by name
PersistentVolumes ==
    LET csi(handle) == [csi |-> [volumeHandle |-> handle],
                        awsElasticBlockStore |-> NilSource, gcePersistentDisk |-> NilSource]
    IN  [n \in {"pv-ebs", "pv-efs", "pv-fsx", "pv-pd", "pv-disk"} |->
            CASE n = "pv-ebs" -> csi("vol-1")
              [] n = "pv-efs" -> csi("fs-1::fsap-1")
              [] n = "pv-fsx" -> csi("fs-1")
              [] n = "pv-pd" -> csi("projects/p/zones/z/disks/d")
              [] n = "pv-disk" ->
                    csi("/subscriptions/s/resourceGroups/g/providers/Microsoft.Compute/disks/d")]

PVNameOf(provisioner) ==
    CASE provisioner = AWS_EBS_CSI -> "pv-ebs"
      [] provisioner = AWS_EFS_CSI -> "pv-efs"
      [] provisioner = AWS_FSX_CSI -> "pv-fsx"
      [] provisioner = GCP_PD_CSI -> "pv-pd"
      [] provisioner = AZURE_DISK_CSI -> "pv-disk"

\* the provisioner and the storage class name of the PVCs of a cloud mode: the
\* provisioners of the mode, and one of another cloud
PVCKinds(mode) ==
    CASE mode = AWS -> {<<AWS_EBS_CSI, "gp3">>, <<AWS_EBS_CSI, NilPtr>>, <<AWS_EFS_CSI, "gp3">>,
                        <<AWS_FSX_CSI, "gp3">>, <<AZURE_DISK_CSI, "gp3">>}
      [] mode = GCP -> {<<GCP_PD_CSI, "gp3">>, <<GCP_PD_CSI, NilPtr>>, <<AWS_EBS_CSI, "gp3">>}
      [] mode = AZURE -> {<<AZURE_DISK_CSI, "gp3">>, <<AZURE_DISK_CSI, NilPtr>>, <<AWS_EBS_CSI, "gp3">>}

\* the values of the tags annotation; "" stands for a PVC without it
ReconcileTagStrings == {"", "{\"a\": \"x\", \"b\": \"y\"}", "{\"a\": \"x\"}"}

WithTags(annotations, tagString) ==
    IF tagString = "" THEN MapRemove(annotations, {"k8s-pvc-tagger/tags"})
    ELSE MapPut(annotations, "k8s-pvc-tagger/tags", tagString)

\* the PVCs that an Added event brings: not yet bound, or bound to their volume
NewPVCs ==
    {[name |-> "my-pvc", namespace |-> "my-namespace", labels |-> EmptyMap,
      annotations |-> WithTags(MapPut(EmptyMap, ProvisionerAnnotation, kind[1]), t),
      storageClassName |-> kind[2], volumeName |-> IF bound THEN PVNameOf(kind[1]) ELSE "",
      deletionTimestamp |-> NilPtr,
      resourceVersion |-> "1"] :
        kind \in PVCKinds(cloud), t \in ReconcileTagStrings, bound \in BOOLEAN}

\* resource versions are opaque: two of them tell a write from a resync
NextResourceVersion(rv) == IF rv = "1" THEN "2" ELSE "1"

\* what a write makes of a PVC: another tags annotation, the binding to its volume,
\* the start of its deletion, or a change of something the tagger does not read
Writes(pvc) ==
    LET written == [pvc EXCEPT !.resourceVersion = NextResourceVersion(pvc.resourceVersion)]
    IN  {written}
        \cup {[written EXCEPT !.annotations = WithTags(pvc.annotations, t)] : t \in ReconcileTagStrings}
        \cup (IF pvc.volumeName # "" THEN {}
              ELSE {[written EXCEPT !.volumeName =
                        PVNameOf(getProvisionedBy(pvc.annotations).provisionedBy)]})
        \cup (IF pvc.deletionTimestamp # NilPtr \/ pvc.volumeName = "" THEN {}
              ELSE {[written EXCEPT !.deletionTimestamp = "2024-01-01T00:00:00Z"]})

\* the orders in which a range can visit the keys of a map
RangeOrders(m) ==
    {order \in [1..Cardinality(DOMAIN m) -> DOMAIN m] :
        \A i, j \in DOMAIN order : order[i] = order[j] => i = j}

\* the keys that a range over a map can visit last ("" for the empty map)
LastKeys(m) == IF DOMAIN m = {} THEN {""} ELSE DOMAIN m

\* a tag of the volume that the tagger has not set
UnmanagedTags == [k \in {"team"} |-> "storage"]

Init ==
    /\ cloud \in {AWS, GCP, AZURE}
    /\ annotationPrefix = defaultAnnotationPrefix
    /\ defaultTags = EmptyMap
    /\ copyLabels = <<>>
    /\ tagFormat = "json"
    /\ allowAllTags = FALSE
    /\ loopVarPerIteration \in BOOLEAN
    /\ pvs = PersistentVolumes
    /\ store = NoObject
    /\ remote = UnmanagedTags
    /\ ev = [kind |-> "none"]
    /\ crashed = FALSE
    /\ call = NoCall

\* whether a call in the outcome of an event made the request op with success
Succeeded(calls, op) == \E i \in DOMAIN calls : calls[i].op \in {op, "update"} /\ calls[i].ok

\* the keys that the event e should have removed but left on the volume after it
\* had applied the new tags; an event without call leaves what was left before it
StaleAfter(e) ==
    IF e.kind = "none" THEN {}
    ELSE IF e.calls = <<>> THEN e.staleBefore
    ELSE IF e.kind # "Updated" THEN {}
    ELSE IF ~Succeeded(e.calls, "add") \/ Succeeded(e.calls, "delete") THEN {}
    ELSE (DOMAIN buildTags(getPVC(e.old))) \ (DOMAIN buildTags(getPVC(e.new)))

\* what an event leaves behind: the stored PVC, the tags of the volume, whether the
\* process has panicked, and the record of the event
Handled(kind, old, new, o, stale) ==
    /\ store' = new
    /\ remote' = o.remote
    /\ crashed' = o.panic
    /\ ev' = [kind |-> kind, old |-> old, new |-> new, calls |-> o.calls,
              pvLookups |-> o.pvLookups, panic |-> o.panic, before |-> remote,
              staleBefore |-> stale]
    /\ UNCHANGED <<config, pvs, call>>

\* the informer's first sight of the PVC
AddFunc ==
    /\ ~crashed
    /\ store = NoObject
    /\ \E obj \in NewPVCs, addOk \in BOOLEAN :
         \E order \in (IF cloud = AWS THEN {<<>>} ELSE RangeOrders(buildTags(getPVC(obj)))) :
            Handled("Added", NoObject, obj, AddFuncOutcome(obj, remote, order, addOk), {})

\* a resync, which hands the stored PVC over as old and as new, or a write
UpdateFunc ==
    /\ ~crashed
    /\ store # NoObject
    /\ \E new \in {store} \cup Writes(store), addOk \in BOOLEAN :
         \E order \in (IF cloud = AWS THEN {<<>>} ELSE RangeOrders(buildTags(getPVC(new)))),
            last \in (IF cloud = AWS /\ ~loopVarPerIteration
                      THEN LastKeys(buildTags(getPVC(store))) ELSE {""}),
            delOk \in (IF cloud = AZURE THEN {TRUE} ELSE BOOLEAN) :
            Handled("Updated", store, new,
                    UpdateFuncOutcome(store, new, remote, order, last, addOk, delOk),
                    StaleAfter(ev))

Next == AddFunc \/ UpdateFunc

Spec == Init /\ [][Next]_vars

----------------------------------------------------------------------------
(* The reconciler in AWS and GCP mode under the writes that drop a tag     *)
(* whose key sanitizes to the key of a tag that stays, and under the       *)
(* writes that set the ignore annotation.                                  *)

\* the values of the tags annotation; "" stands for a PVC without it
DroppingTagStrings ==
    {"", "{\"a.b\": \"x\", \"a-b\": \"y\"}", "{\"a-b\": \"y\"}"}

DroppingPVCKinds(mode) ==
    CASE mode = AWS -> {<<AWS_EBS_CSI, "gp3">>, <<AWS_FSX_CSI, "gp3">>, <<AWS_EBS_CSI, NilPtr>>}
      [] mode = GCP -> {<<GCP_PD_CSI, "gp3">>}

DroppingPVCs ==
    {[name |-> "my-pvc", namespace |-> "my-namespace", labels |-> EmptyMap,
      annotations |-> WithTags(MapPut(EmptyMap, ProvisionerAnnotation, kind[1]), t),
      storageClassName |-> kind[2], volumeName |-> PVNameOf(kind[1]),
      deletionTimestamp |-> NilPtr, resourceVersion |-> "1"] :
        kind \in DroppingPVCKinds(cloud), t \in DroppingTagStrings \ {""}}

\* a write of the tags annotation, or of the ignore annotation
DroppingWrites(pvc) ==
    LET written == [pvc EXCEPT !.resourceVersion = NextResourceVersion(pvc.resourceVersion)]
    IN  {[written EXCEPT !.annotations = WithTags(pvc.annotations, t)] : t \in DroppingTagStrings}
        \cup {[written EXCEPT !.annotations = MapPut(pvc.annotations, "k8s-pvc-tagger/ignore", "true")]}

InitDropping ==
    /\ cloud \in {AWS, GCP}
    /\ annotationPrefix = defaultAnnotationPrefix
    /\ defaultTags = EmptyMap
    /\ copyLabels = <<>>
    /\ tagFormat = "json"
    /\ allowAllTags = FALSE
    /\ loopVarPerIteration \in (IF cloud = AWS THEN BOOLEAN ELSE {TRUE})
    /\ pvs = PersistentVolumes
    /\ store = NoObject
    /\ remote = UnmanagedTags
    /\ ev = [kind |-> "none"]
    /\ crashed = FALSE
    /\ call = NoCall

\* the range of the collaborator over the tags of the PVC
OrdersOf(obj) ==
    IF cloud = AWS \/ buildTags(getPVC(obj)) = Panic THEN {<<>>}
    ELSE RangeOrders(buildTags(getPVC(obj)))

AddFuncOfTagged ==
    /\ ~crashed
    /\ store = NoObject
    /\ \E obj \in DroppingPVCs, addOk \in BOOLEAN :
         \E order \in OrdersOf(obj) :
            Handled("Added", NoObject, obj, AddFuncOutcome(obj, remote, order, addOk), {})

UpdateFuncOfDropping ==
    /\ ~crashed
    /\ store # NoObject
    /\ \E new \in DroppingWrites(store), addOk \in BOOLEAN, delOk \in BOOLEAN :
         \E order \in OrdersOf(new),
            last \in (IF cloud = AWS /\ ~loopVarPerIteration /\ buildTags(getPVC(store)) # Panic
                      THEN LastKeys(buildTags(getPVC(store))) ELSE {""}) :
            Handled("Updated", store, new,
                    UpdateFuncOutcome(store, new, remote, order, last, addOk, delOk), {})

NextDropping == AddFuncOfTagged \/ UpdateFuncOfDropping

SpecDropping == InitDropping /\ [][NextDropping]_vars


----------------------------------------------------------------------------
(* The resolver under every kind of PersistentVolume: one PVC, bound to    *)
(* the volume "pv", which the cluster may lack, and which may lack the     *)
(* volume source that the provisioner of the PVC implies.                  *)

csiSource(handle) ==
    [csi |-> [volumeHandle |-> handle], awsElasticBlockStore |-> NilSource,
     gcePersistentDisk |-> NilSource]

awsElasticBlockStoreSource(id) ==
    [csi |-> NilSource, awsElasticBlockStore |-> [volumeID |-> id],
     gcePersistentDisk |-> NilSource]

gcePersistentDiskSource(name) ==
    [csi |-> NilSource, awsElasticBlockStore |-> NilSource,
     gcePersistentDisk |-> [pdName |-> name]]

noSource ==
    [csi |-> NilSource, awsElasticBlockStore |-> NilSource, gcePersistentDisk |-> NilSource]

ResolvePVs ==
    {csiSource("vol-12345"), csiSource("fs-1::fsap-1"), csiSource("fs-1"), csiSource(""),
     csiSource("projects/p/zones/z/disks/d"),
     csiSource("/subscriptions/s/resourceGroups/g/providers/Microsoft.Compute/disks/d"),
     awsElasticBlockStoreSource("aws://us-east-1a/vol-1"),
     awsElasticBlockStoreSource("aws://us-east-1a/nope"),
     awsElasticBlockStoreSource("asdf://us-east-1a/vol-12345"),
     awsElasticBlockStoreSource("aws://something-else/vol-089747b9fac6ab469"),
     awsElasticBlockStoreSource("vol-abc123"),
     gcePersistentDiskSource("d"), noSource}

\* the cluster without the volume, or with one of the volumes
ResolvePVSets == {EmptyMap} \cup {[n \in {"pv"} |-> pv] : pv \in ResolvePVs}

Provisioners ==
    {AWS_EBS_CSI, AWS_EBS_LEGACY, AWS_EFS_CSI, AWS_FSX_CSI, AZURE_DISK_CSI, GCP_PD_CSI,
     GCP_PD_LEGACY}

BetaProvisionerAnnotation == "volume.beta.kubernetes.io/storage-provisioner"

\* the provisioner under the key of today, under the beta key, under both, or absent
ResolveAnnotations ==
    {MapPut(EmptyMap, ProvisionerAnnotation, by) : by \in Provisioners \cup {"example.com/nfs"}}
    \cup {MapPut(EmptyMap, BetaProvisionerAnnotation, AWS_EBS_CSI),
          MapPut(MapPut(EmptyMap, ProvisionerAnnotation, AWS_EFS_CSI),
                 BetaProvisionerAnnotation, AWS_EBS_CSI),
          EmptyMap}

ResolveTagStrings == {"", "{\"a\": \"x\"}"}

ResolvePVCs ==
    {[name |-> "my-pvc", namespace |-> "my-namespace", labels |-> EmptyMap,
      annotations |-> WithTags(a, t), storageClassName |-> sc, volumeName |-> "pv",
      deletionTimestamp |-> NilPtr, resourceVersion |-> "1"] :
        a \in ResolveAnnotations, t \in ResolveTagStrings, sc \in {NilPtr, "gp3"}}

\* a write of the tags annotation, or of something the tagger does not read
ResolveWrites(pvc) ==
    {[pvc EXCEPT !.resourceVersion = NextResourceVersion(pvc.resourceVersion),
                 !.annotations = WithTags(pvc.annotations, t)] : t \in ResolveTagStrings}

InitResolve ==
    /\ cloud \in {AWS, GCP, AZURE}
    /\ annotationPrefix = defaultAnnotationPrefix
    /\ defaultTags = EmptyMap
    /\ copyLabels = <<>>
    /\ tagFormat = "json"
    /\ allowAllTags = FALSE
    /\ loopVarPerIteration = TRUE
    /\ pvs \in ResolvePVSets
    /\ store = NoObject
    /\ remote = UnmanagedTags
    /\ ev = [kind |-> "none"]
    /\ crashed = FALSE
    /\ call = NoCall

\* what an event leaves behind, with the resolution p that its handler was given
HandledResolving(kind, old, new, o, p) ==
    /\ store' = new
    /\ remote' = o.remote
    /\ crashed' = o.panic
    /\ ev' = [kind |-> kind, old |-> old, new |-> new, calls |-> o.calls,
              pvLookups |-> o.pvLookups, panic |-> o.panic, before |-> remote,
              staleBefore |-> {}]
    /\ call' = [fn |-> "processPersistentVolumeClaim", arg |-> getPVC(new), ret |-> p]
    /\ UNCHANGED <<config, pvs>>

AddFuncResolving ==
    /\ ~crashed
    /\ store = NoObject
    /\ \E obj \in ResolvePVCs, addOk \in BOOLEAN :
         \E order \in (IF cloud = AWS THEN {<<>>} ELSE RangeOrders(buildTags(getPVC(obj)))) :
            HandledResolving("Added", NoObject, obj, AddFuncOutcome(obj, remote, order, addOk),
                             processPersistentVolumeClaim(getPVC(obj)))

UpdateFuncResolving ==
    /\ ~crashed
    /\ store # NoObject
    /\ \E new \in ResolveWrites(store), addOk \in BOOLEAN, delOk \in BOOLEAN :
         \E order \in (IF cloud = AWS THEN {<<>>} ELSE RangeOrders(buildTags(getPVC(new)))) :
            HandledResolving("Updated", store, new,
                             UpdateFuncOutcome(store, new, remote, order, "", addOk, delOk),
                             processPersistentVolumeClaim(getPVC(new)))

NextResolve == AddFuncResolving \/ UpdateFuncResolving

SpecResolve == InitResolve /\ [][NextResolve]_vars

----------------------------------------------------------------------------
(* The parsers, the sanitizers and the cloud collaborators called          *)
(* directly, as the tests of main_test.go, gcp_test.go and azure_test.go   *)
(* call them: one call of one function on one input.                       *)

\* the most segments of a CSV text
MaxSegments == 2

CsvSegments ==
    {"", " ", "a=x", "a=y", " b = z ", "foo", "=x", "a=", "a=x=y", " =v", "c= "}

RECURSIVE CsvStrings(_)
CsvStrings(n) ==
    IF n = 1 THEN CsvSegments
    ELSE CsvStrings(n - 1) \cup {s \o "," \o t : s \in CsvStrings(n - 1), t \in CsvSegments}

RECURSIVE Repeat(_, _)
Repeat(c, n) ==
    IF n = 0 THEN ""
    ELSE IF n % 2 = 1 THEN c \o Repeat(c, n - 1)
    ELSE LET twice(half) == half \o half IN twice(Repeat(c, n \div 2))

\* keys with the characters that GCP does not take, of the greatest length and longer
GcpKeys ==
    {"", "a", "A", "Dom.tld/Key", "dom-tld_key", "a-", "a._/", Repeat("a", 63),
     Repeat("a", 62) \o "-b", Repeat("a", 61) \o "/.b", Repeat("a", 70)}

GcpLabelMaps ==
    {EmptyMap, [k \in {"a"} |-> "x"], [k \in {"Dom.tld/Key"} |-> "v"],
     ("a" :> "x") @@ ("b" :> "y"), ("A" :> "x") @@ ("a" :> "y"),
     [k \in {Repeat("a", 62) \o "-b"} |-> Repeat("v", 64)]}

\* the labels of the disk before the call
GcpDiskLabels ==
    {EmptyMap, [k \in {"a"} |-> "x"], [k \in {"team"} |-> "storage"],
     ("a" :> "x") @@ ("team" :> "storage"), ("a" :> "old") @@ ("dom-tld_key" :> "v")}

GcpKeySets == {{}, {"a"}, {"dom.tld/key"}, {"a", "zz"}, {"zz"}}

\* tag names: restricted ones in several cases, and names that hold, extend or fall
\* short of a restricted one
TagNames ==
    {"", "a", "something", "my-name.io/something", "kubernetes.io/something", "kubernetes.io",
     "Kubernetes.IO/created-for", "KUBERNETES.IO", "kubernetes.i", "xkubernetes.io",
     "kubernetes-io/x", "name", "Name", "NAME", "names", "my-name", "nam",
     "KubernetesCluster", "kubernetescluster", "KUBERNETESCLUSTER", "KubernetesClusters",
     "kubernetes"}

\* handles of six segments, of one and of five
GcpVolumeIDs == {"projects/p/zones/z/disks/d", "d", "projects/p/zones/z/disks"}

\* handles of no, one, four, five, six and seven segments
GcpHandles ==
    GcpVolumeIDs \cup {"", "projects/p/zones/z", "projects/p/zones/z/disks/",
                       "projects/p/zones/z/disks/d/x"}

AzureTagMaps ==
    {EmptyMap, [k \in {"a"} |-> "x"], ("a" :> "x") @@ ("b" :> "y"), [k \in {"a/b"} |-> "x"],
     ("a/b" :> "x") @@ ("ab" :> "y")}

\* n tags t1 .. tn of the value v, and the order of their names
ManyTags(n, v) == [k \in {"t" \o ToString(i) : i \in 1..n} |-> v]

ManyTagsOrder(n) == [i \in 1..n |-> "t" \o ToString(i)]

\* tag maps at the limits of Azure: 50 and 51 tags, values of 256 and 257 characters
AzureLimitTagMaps ==
    {ManyTags(50, "v"), ManyTags(51, "v"), ManyTags(51, Repeat("v", 257)),
     [k \in {"a"} |-> Repeat("v", 256)], [k \in {"a"} |-> Repeat("v", 257)],
     ("a" :> "x") @@ ("b" :> Repeat("v", 257))}

\* the orders of a range over tags; the many tags of a map at the limit sanitize to
\* themselves, so that one order stands for every order
AzureOrders(tags) ==
    IF Cardinality(DOMAIN tags) > 2 THEN {ManyTagsOrder(Cardinality(DOMAIN tags))}
    ELSE RangeOrders(tags)

AzureDiskTags ==
    {EmptyMap, [k \in {"a"} |-> "x"], ("a" :> "x") @@ ("team" :> "storage"),
     ("a" :> "old") @@ ("b" :> "y"), ("ab" :> "x") @@ ("team" :> "storage")}

AzureRemovedTags == {{}, {"b"}, {"zz"}, {"a/b"}}

\* volume ids of the AWSElasticBlockStore source: bare, URL-shaped with one and with
\* several segments and slashes, of another scheme, without path
EbsVolumeIDs ==
    {"", "vol-abc123", "disk-1", "aws://us-east-1a/vol-12345", "aws://us-east-1a//vol-12345/",
     "aws://us-east-1a/a/vol-12345", "aws://us-east-1a/vol-12345/a", "aws://us-east-1a/disk-1",
     "aws://us-east-1a", "aws://us-east-1a/", "aws:///vol-12345", "aws://us-east-1a/vol-",
     "aws://something-else/vol-089747b9fac6ab469", "asdf://us-east-1a/vol-12345",
     "AWS://us-east-1a/vol-12345"}

\* ids of nine fields, of one and of ten
AzureVolumeIDs ==
    {"/subscriptions/s/resourceGroups/g/providers/Microsoft.Compute/disks/d", "d",
     "/subscriptions/s/resourceGroups/g/providers/Microsoft.Compute/disks/d/x"}

\* ids of no, one, eight, nine and ten fields
AzureHandles ==
    AzureVolumeIDs \cup {"", "/subscriptions/s/resourceGroups/g/providers/Microsoft.Compute/disks",
                         "subscriptions/s/resourceGroups/g/providers/Microsoft.Compute/disks/d",
                         "a/b/c/d/e/f/g/h/i"}

InitCalls ==
    /\ cloud = AWS
    /\ annotationPrefix = defaultAnnotationPrefix
    /\ defaultTags = EmptyMap
    /\ copyLabels = <<>>
    /\ tagFormat = "json"
    /\ allowAllTags = FALSE
    /\ loopVarPerIteration = TRUE
    /\ pvs = EmptyMap
    /\ store = NoObject
    /\ remote = EmptyMap
    /\ ev = [kind |-> "none"]
    /\ crashed = FALSE
    /\ call = NoCall

\* the call of fn on arg has returned ret; the volume carries the tags rem
Called(fn, arg, ret, rem) ==
    /\ call' = [fn |-> fn, arg |-> arg, ret |-> ret]
    /\ remote' = rem
    /\ UNCHANGED <<config, pvs, store, ev, crashed>>

CallParseCsv ==
    /\ call = NoCall
    /\ \E value \in CsvStrings(MaxSegments) :
           Called("parseCsv", value, parseCsv(value), remote)

CallIsValidTagName ==
    /\ call = NoCall
    /\ \E name \in TagNames : Called("isValidTagName", name, isValidTagName(name), remote)

CallParseAWSEBSVolumeID ==
    /\ call = NoCall
    /\ \E kubernetesID \in EbsVolumeIDs :
           Called("parseAWSEBSVolumeID", kubernetesID, parseAWSEBSVolumeID(kubernetesID), remote)

CallParseVolumeID ==
    /\ call = NoCall
    /\ \E id \in GcpHandles : Called("parseVolumeID", id, parseVolumeID(id), remote)

CallSanitizeKeyForGCP ==
    /\ call = NoCall
    /\ \E key \in GcpKeys :
           Called("sanitizeKeyForGCP", key, sanitizeKeyForGCP(key), remote)

CallSanitizeLabelsForGCP ==
    /\ call = NoCall
    /\ \E labels \in GcpLabelMaps :
           \E order \in RangeOrders(labels) :
               Called("sanitizeLabelsForGCP", [labels |-> labels, order |-> order],
                      sanitizeLabelsForGCP(labels, order), remote)

\* the outcome of a call of a collaborator on the disk that carries existing
CalledOnDisk(fn, arg, o) == Called(fn, arg, o, o.remote)

CallAddPDVolumeLabels ==
    /\ call = NoCall
    /\ \E existing \in GcpDiskLabels, volumeID \in GcpVolumeIDs, labels \in GcpLabelMaps,
          getOk \in BOOLEAN, setOk \in BOOLEAN :
           \E order \in RangeOrders(labels) :
               CalledOnDisk("addPDVolumeLabels",
                            [existing |-> existing, volumeID |-> volumeID, labels |-> labels,
                             order |-> order, getOk |-> getOk, setOk |-> setOk],
                            addPDVolumeLabels(existing, volumeID, labels, order, getOk, setOk))

CallDeletePDVolumeLabels ==
    /\ call = NoCall
    /\ \E existing \in GcpDiskLabels, volumeID \in GcpVolumeIDs, keys \in GcpKeySets,
          getOk \in BOOLEAN, setOk \in BOOLEAN :
           CalledOnDisk("deletePDVolumeLabels",
                        [existing |-> existing, volumeID |-> volumeID, keys |-> keys,
                         getOk |-> getOk, setOk |-> setOk],
                        deletePDVolumeLabels(existing, volumeID, keys, getOk, setOk))

\* the ids of a file system, of a volume, and of neither
FSxVolumeIDs == {"fs-1", "fsvol-1", "fs-0"}

\* the call reaches the resource that its describe request finds, or none; remote
\* holds the tags of that resource
CallAddFSxVolumeTags ==
    /\ call = NoCall
    /\ \E volumeID \in FSxVolumeIDs, existing \in {EmptyMap, [k \in {"a"} |-> "old"]},
          ok \in BOOLEAN :
           Called("addFSxVolumeTags", [volumeID |-> volumeID, existing |-> existing, ok |-> ok],
                  resourceOfAddFSxVolumeTags(volumeID),
                  addFSxVolumeTags(existing, volumeID, [k \in {"a"} |-> "x"],
                                   ok /\ ~resourceOfAddFSxVolumeTags(volumeID).err))

CallDeleteFSxVolumeTags ==
    /\ call = NoCall
    /\ \E volumeID \in FSxVolumeIDs, existing \in {EmptyMap, [k \in {"a"} |-> "old"]},
          ok \in BOOLEAN :
           Called("deleteFSxVolumeTags", [volumeID |-> volumeID, existing |-> existing, ok |-> ok],
                  resourceOfDeleteFSxVolumeTags(volumeID),
                  deleteFSxVolumeTags(existing, volumeID, {"a"},
                                      ok /\ ~resourceOfDeleteFSxVolumeTags(volumeID).err))

CallParseAzureVolumeID ==
    /\ call = NoCall
    /\ \E volumeID \in AzureHandles :
           Called("parseAzureVolumeID", volumeID, parseAzureVolumeID(volumeID), remote)

CallSanitizeLabelsForAzure ==
    /\ call = NoCall
    /\ \E tags \in AzureTagMaps \cup AzureLimitTagMaps :
           \E order \in AzureOrders(tags) :
               Called("sanitizeLabelsForAzure", [tags |-> tags, order |-> order],
                      sanitizeLabelsForAzure(tags, order), remote)

CallUpdateAzureVolumeTags ==
    /\ call = NoCall
    /\ \E existing \in AzureDiskTags, volumeID \in AzureVolumeIDs,
          tags \in AzureTagMaps \cup AzureLimitTagMaps,
          removedTags \in AzureRemovedTags, getOk \in BOOLEAN, setOk \in BOOLEAN :
           \E order \in AzureOrders(tags) :
               CalledOnDisk("UpdateAzureVolumeTags",
                            [existing |-> existing, volumeID |-> volumeID, tags |-> tags,
                             removedTags |-> removedTags, order |-> order, getOk |-> getOk,
                             setOk |-> setOk],
                            UpdateAzureVolumeTags(existing, volumeID, tags, removedTags, order,
                                                  getOk, setOk))

NextCalls ==
    \/ CallParseCsv
    \/ CallIsValidTagName
    \/ CallParseAWSEBSVolumeID
    \/ CallParseVolumeID
    \/ CallSanitizeKeyForGCP
    \/ CallSanitizeLabelsForGCP
    \/ CallAddPDVolumeLabels
    \/ CallDeletePDVolumeLabels
    \/ CallParseAzureVolumeID
    \/ CallSanitizeLabelsForAzure
    \/ CallUpdateAzureVolumeTags
    \/ CallAddFSxVolumeTags
    \/ CallDeleteFSxVolumeTags

SpecCalls == InitCalls /\ [][NextCalls]_vars

----------------------------------------------------------------------------
(* The wait of the GCP collaborators for the operation that SetDiskLabels  *)
(* has started: call.pc tells where the call is ("polling" between two     *)
(* polls, else how it returned) and call.elapsed the seconds since the     *)
(* wait began.                                                             *)

\* the most seconds that the model counts
MaxElapsed == 61

OperationStatuses == {"PENDING", "RUNNING", "DONE", "error"}

InitPoll == InitCalls

\* the call up to the answer to SetDiskLabels: it waits when the request was accepted
Started(fn, arg, o) ==
    /\ call' = [fn |-> fn, arg |-> arg, ret |-> o, elapsed |-> 0,
                pc |-> IF o.panic THEN "panic"
                       ELSE IF o.sets # <<>> /\ ~o.err THEN "polling"
                       ELSE "returned"]
    /\ remote' = o.remote
    /\ UNCHANGED <<config, pvs, store, ev, crashed>>

StartAddPDVolumeLabels ==
    /\ call = NoCall
    /\ \E existing \in GcpDiskLabels, volumeID \in GcpVolumeIDs, getOk \in BOOLEAN,
          setOk \in BOOLEAN :
           Started("addPDVolumeLabels",
                   [existing |-> existing, volumeID |-> volumeID, getOk |-> getOk, setOk |-> setOk],
                   addPDVolumeLabels(existing, volumeID, [k \in {"a"} |-> "x"], <<"a">>, getOk, setOk))

StartDeletePDVolumeLabels ==
    /\ call = NoCall
    /\ \E existing \in GcpDiskLabels, volumeID \in GcpVolumeIDs, getOk \in BOOLEAN,
          setOk \in BOOLEAN :
           Started("deletePDVolumeLabels",
                   [existing |-> existing, volumeID |-> volumeID, getOk |-> getOk, setOk |-> setOk],
                   deletePDVolumeLabels(existing, volumeID, {"a"}, getOk, setOk))

\* a tick of the interval: GetGCEOp is asked for the status of the operation
PollGCEOp ==
    /\ call # NoCall
    /\ call.pc = "polling"
    /\ ~contextDone(call.elapsed)
    /\ call.elapsed < MaxElapsed
    /\ \E status \in OperationStatuses :
          call' = [call EXCEPT !.elapsed = @ + pollInterval,
                               !.pc = IF waitForCompletion(status).err THEN "failed"
                                      ELSE IF waitForCompletion(status).done THEN "done"
                                      ELSE "polling"]
    /\ UNCHANGED <<config, pvs, store, remote, ev, crashed>>

\* the deadline of the context comes before the next tick, or with it
PollTimeout ==
    /\ call # NoCall
    /\ call.pc = "polling"
    /\ contextDone(call.elapsed + pollInterval)
    /\ call' = [call EXCEPT !.elapsed = pollTimeout, !.pc = "timeout"]
    /\ UNCHANGED <<config, pvs, store, remote, ev, crashed>>

NextPoll ==
    \/ StartAddPDVolumeLabels
    \/ StartDeletePDVolumeLabels
    \/ PollGCEOp
    \/ PollTimeout

SpecPoll == InitPoll /\ [][NextPoll]_vars

\* time passes and GetGCEOp answers
SpecPollFair == SpecPoll /\ WF_vars(NextPoll)

----------------------------------------------------------------------------
(* A call of a collaborator of Azure or GCP in the steps in which it       *)
(* reaches the disk: the read (GetDiskTags, GetDisk) and the write         *)
(* (SetDiskTags, SetDiskLabels), between which another writer may change   *)
(* the tags of the disk.  remote holds the tags of the disk.               *)

\* the fingerprint of the labels of a disk: a hash of their contents, which stands
\* here for the contents hashed
labelFingerprint(labels) == [hashOf |-> labels]

\* the disk that GetDisk returns
GetDisk(labels) == [labels |-> labels, labelFingerprint |-> labelFingerprint(labels)]

\* (mutant of requestFingerprint) the fingerprint that the disk carries at the write
requestFingerprintOfNow(disk, now) == labelFingerprint(now)

\* the LabelFingerprint of a ZoneSetLabelsRequest: that of the disk as it was read,
\* whatever labels the disk carries now
requestFingerprint(disk, now) == disk.labelFingerprint

\* GCE takes the labels of a request whose fingerprint is that of the labels of the
\* disk, and fails every other
gceAccepts(req, now) == req.labelFingerprint = labelFingerprint(now)

\* the tags that another writer puts on a disk
OtherWritersTags == {"owner", "env"}

InterleavedCalls ==
    {[fn |-> "UpdateAzureVolumeTags", volumeID |-> v, tags |-> t, keys |-> r] :
        v \in AzureVolumeIDs, t \in {EmptyMap, [k \in {"a"} |-> "x"]}, r \in {{}, {"b"}}}
    \cup {[fn |-> "addPDVolumeLabels", volumeID |-> v, tags |-> [k \in {"a"} |-> "x"], keys |-> {}] :
            v \in GcpVolumeIDs}
    \cup {[fn |-> "deletePDVolumeLabels", volumeID |-> v, tags |-> EmptyMap, keys |-> r] :
            v \in GcpVolumeIDs, r \in {{"a"}, {"b"}}}

\* what the call does with the tags that its read returned, were its write answered
afterRead(c, existing, getOk) ==
    CASE c.fn = "UpdateAzureVolumeTags" ->
            [panic |-> FALSE] @@
            UpdateAzureVolumeTags(existing, c.volumeID, c.tags, c.keys,
                                  IF c.tags = EmptyMap THEN <<>> ELSE <<"a">>, getOk, TRUE)
      [] c.fn = "addPDVolumeLabels" ->
            addPDVolumeLabels(existing, c.volumeID, c.tags, <<"a">>, getOk, TRUE)
      [] c.fn = "deletePDVolumeLabels" ->
            deletePDVolumeLabels(existing, c.volumeID, c.keys, getOk, TRUE)

InitInterleave ==
    /\ cloud \in {AZURE, GCP}
    /\ annotationPrefix = defaultAnnotationPrefix
    /\ defaultTags = EmptyMap
    /\ copyLabels = <<>>
    /\ tagFormat = "json"
    /\ allowAllTags = FALSE
    /\ loopVarPerIteration = TRUE
    /\ pvs = EmptyMap
    /\ store = NoObject
    /\ remote \in (IF cloud = AZURE THEN AzureDiskTags ELSE GcpDiskLabels)
    /\ ev = [kind |-> "none"]
    /\ crashed = FALSE
    /\ call = NoCall

\* the call up to its read of the disk: it returns there unless it has tags to write
ReadOf(c, o) ==
    /\ call' = [fn |-> c.fn, arg |-> c, others |-> EmptyMap,
                disk |-> IF cloud = AZURE THEN [labels |-> remote] ELSE GetDisk(remote),
                requests |-> <<>>, err |-> o.err, before |-> remote,
                pc |-> IF o.panic THEN "panic" ELSE IF o.sets = <<>> THEN "returned" ELSE "read"]
    /\ crashed' = o.panic
    /\ UNCHANGED <<config, pvs, store, remote, ev>>

ReadDisk ==
    /\ call = NoCall
    /\ \E c \in InterleavedCalls, getOk \in BOOLEAN :
          /\ c.fn = "UpdateAzureVolumeTags" <=> cloud = AZURE
          /\ ReadOf(c, afterRead(c, remote, getOk))

\* another writer puts a tag on the disk after the read of the call
AnotherWriterSetsTag ==
    /\ call # NoCall
    /\ call.pc = "read"
    /\ \E k \in OtherWritersTags \ DOMAIN remote :
          /\ remote' = MapPut(remote, k, "theirs")
          /\ call' = [call EXCEPT !.others = MapPut(@, k, "theirs")]
    /\ UNCHANGED <<config, pvs, store, ev, crashed>>

\* the write of the call, with the tags computed of the tags that it read, and its
\* return: SetDiskTags replaces the tags of the disk, SetDiskLabels the labels of the
\* disk if GCE accepts the fingerprint; setOk is the answer to a request in order
WriteOf(o, req, setOk) ==
    /\ remote' = IF setOk /\ (cloud = AZURE \/ gceAccepts(req, remote)) THEN req.labels ELSE remote
    /\ call' = [call EXCEPT !.requests = <<req>>, !.before = remote, !.pc = "returned",
                            !.err = ~(setOk /\ (cloud = AZURE \/ gceAccepts(req, remote)))]
    /\ UNCHANGED <<config, pvs, store, ev, crashed>>

WriteDisk ==
    /\ call # NoCall
    /\ call.pc = "read"
    /\ \E setOk \in BOOLEAN :
          WriteOf(afterRead(call.arg, call.disk.labels, TRUE),
                  IF cloud = AZURE
                  THEN [labels |-> afterRead(call.arg, call.disk.labels, TRUE).sets[1]]
                  ELSE [labels |-> afterRead(call.arg, call.disk.labels, TRUE).sets[1],
                        labelFingerprint |-> requestFingerprint(call.disk, remote)],
                  setOk)

NextInterleave == ReadDisk \/ AnotherWriterSetsTag \/ WriteDisk

SpecInterleave == InitInterleave /\ [][NextInterleave]_vars


----------------------------------------------------------------------------
(* aks.go: the cache of clients of azureClient, by subscription, under two *)
(* goroutines that call getClient.  getClient takes no lock: its lookup    *)
(* in the map and its assignment to the map each take time, and the        *)
(* assignment of one goroutine may overlap an access of the other.  That   *)
(* is a data race on a Go map, whose outcome the language leaves open:     *)
(* the runtime may stop the process ("concurrent map read and map write",  *)
(* "concurrent map writes"), the assignment may take effect, or it may be  *)
(* lost.  call holds the map and each goroutine's position.                *)

Goroutines == {1, 2}

AzureSubscriptions == {"s1", "s2"}

\* the goroutine is at an access of the map
LooksUp(g) == g.pc = "lookup"

Assigns(g) == g.pc = "assign"

\* an assignment to the map overlaps another access of it
MapRace(gs) ==
    \E i, j \in Goroutines :
        i # j /\ Assigns(gs[i]) /\ (LooksUp(gs[j]) \/ Assigns(gs[j]))

InitClients == InitCalls

\* NewAzureClient, and the goroutines before their calls
StartGoroutines ==
    /\ call = NoCall
    /\ call' = [fn |-> "getClient", clients |-> EmptyMap, created |-> 0, raced |-> FALSE,
                g |-> [i \in Goroutines |->
                          [pc |-> "idle", sub |-> "", client |-> 0, err |-> FALSE, calls |-> 0,
                           asked |-> {}]]]
    /\ UNCHANGED <<config, pvs, store, remote, ev, crashed>>

\* the position of goroutine i becomes g; a race, once seen, is remembered
Moved(i, g, clients, created) ==
    /\ call' = [call EXCEPT !.g[i] = g, !.clients = clients, !.created = created,
                            !.raced = @ \/ MapRace([call.g EXCEPT ![i] = g])]
    /\ UNCHANGED <<config, pvs, store, remote, ev, crashed>>

AtGetClient(i, pc) == ~crashed /\ call # NoCall /\ call.fn = "getClient" /\ call.g[i].pc = pc

\* getClient(subscriptionID) is called: the lookup self.clients[subscriptionID] begins
BeginLookup ==
    \E i \in Goroutines, sub \in AzureSubscriptions :
        /\ AtGetClient(i, "idle")
        /\ call.g[i].calls < MaxCalls
        /\ Moved(i, [call.g[i] EXCEPT !.pc = "lookup", !.sub = sub, !.calls = @ + 1, !.err = FALSE],
                 call.clients, call.created)

\* the lookup ends: the client found is returned, or a client is to be made
EndLookup ==
    \E i \in Goroutines :
        /\ AtGetClient(i, "lookup")
        /\ Moved(i, IF call.g[i].sub \in DOMAIN call.clients
                    THEN [call.g[i] EXCEPT !.pc = "idle", !.client = call.clients[call.g[i].sub],
                                           !.asked = @ \cup {call.g[i].sub}]
                    ELSE [call.g[i] EXCEPT !.pc = "new"],
                 call.clients, call.created)

\* armcompute.NewDisksClient makes a client, after which the assignment
\* self.clients[subscriptionID] = client begins, or fails, and getClient returns
NewDisksClient ==
    \E i \in Goroutines, ok \in BOOLEAN :
        /\ AtGetClient(i, "new")
        /\ Moved(i, IF ok
                    THEN [call.g[i] EXCEPT !.pc = "assign", !.client = call.created + 1]
                    ELSE [call.g[i] EXCEPT !.pc = "idle", !.err = TRUE],
                 call.clients, IF ok THEN call.created + 1 ELSE call.created)

\* the assignment ends and getClient returns the client; an assignment that raced
\* may have been lost
EndAssign ==
    \E i \in Goroutines, lost \in BOOLEAN :
        /\ AtGetClient(i, "assign")
        /\ lost => MapRace(call.g)
        /\ Moved(i, [call.g[i] EXCEPT !.pc = "idle", !.asked = @ \cup {call.g[i].sub}],
                 IF lost THEN call.clients
                 ELSE MapPut(call.clients, call.g[i].sub, call.g[i].client),
                 call.created)

\* the runtime finds the map written while it is accessed and stops the process
FatalError ==
    /\ ~crashed
    /\ call # NoCall
    /\ call.fn = "getClient"
    /\ MapRace(call.g)
    /\ crashed' = TRUE
    /\ UNCHANGED <<config, pvs, store, remote, ev, call>>

NextClients ==
    \/ StartGoroutines
    \/ BeginLookup
    \/ EndLookup
    \/ NewDisksClient
    \/ EndAssign
    \/ FatalError

SpecClients == InitClients /\ [][NextClients]_vars


----------------------------------------------------------------------------
(* Claims about the tag builder, checked under SpecBuild.                  *)

Built == call.fn = "buildTags"

HasAnnotation(pvc, name) == name \in DOMAIN pvc.annotations

WithoutAnnotations(pvc, names) ==
    [pvc EXCEPT !.annotations = MapRemove(pvc.annotations, names)]

\* the PVC carries an ignore annotation that the configuration honours
Ignored(pvc) ==
    \/ HasAnnotation(pvc, annotationPrefix \o "/ignore")
    \/ /\ annotationPrefix = defaultAnnotationPrefix
       /\ HasAnnotation(pvc, legacyAnnotationPrefix \o "/ignore")

\* the entries of m whose name passes the name validator
ValidOnly(m) == [k \in {x \in DOMAIN m : isValidTagName(x)} |-> m[k]]

\* the keys of the three sources of tags of a PVC
CustomTags(pvc) ==
    IF tagStringOf(pvc.annotations).ok
    THEN customTagsOf(tagStringOf(pvc.annotations).tagString)
    ELSE EmptyMap

SourceKeys(pvc) ==
    (DOMAIN defaultTags) \cup (DOMAIN copiedLabels(pvc)) \cup (DOMAIN CustomTags(pvc))

\* C2: when allowAllTags is false the map buildTags returns has no key that fails
\* isValidTagName, whichever source the key came from (defaults, copied labels, the
\* JSON or CSV tags annotation); when allowAllTags is true the restricted keys of the
\* sources are kept.
BuildTagsNeverReturnsRestrictedName ==
    (Built /\ call.ret # Panic) =>
        /\ ~allowAllTags => \A k \in DOMAIN call.ret : isValidTagName(k)
        /\ (allowAllTags /\ ~Ignored(call.arg)) => SourceKeys(call.arg) \subseteq DOMAIN call.ret

BuildTagsRestrictedNameWitness ==
    /\ Built
    /\ ~allowAllTags
    /\ "KubernetesCluster" \in DOMAIN defaultTags
    /\ "kubernetes.io/x" \in DOMAIN copiedLabels(call.arg)
    /\ "Name" \in DOMAIN CustomTags(call.arg)
    /\ DOMAIN call.ret = {"a", "c", "d"}

\* C3: buildTags returns the empty map whenever the PVC carries <annotationPrefix>/ignore,
\* or the prefix is the default one and the PVC carries aws-ebs-tagger/ignore; with a
\* customized prefix the k8s-pvc-tagger/ignore and aws-ebs-tagger/ignore annotations
\* change nothing.
BuildTagsIgnoreReturnsEmpty ==
    Built =>
        /\ Ignored(call.arg) => call.ret = EmptyMap
        /\ annotationPrefix # defaultAnnotationPrefix =>
              call.ret = buildTags(WithoutAnnotations(call.arg,
                            {"k8s-pvc-tagger/ignore", "aws-ebs-tagger/ignore"}))

\* C3 for the PVCs that have a storage class name: there the claim holds
BuildTagsIgnoreReturnsEmptyWithStorageClass ==
    (Built /\ call.arg.storageClassName = NilPtr) \/ BuildTagsIgnoreReturnsEmpty

\* C4: for a PVC without ignore annotation buildTags is the right-biased merge of the
\* validity-filtered defaults, copied labels and annotation tags, in this order (values
\* as rendered): the annotation wins over a label and a default, a label over a default,
\* and a key of a lower-priority source alone is kept.
BuildTagsIsRightBiasedMerge ==
    (Built /\ ~Ignored(call.arg)) =>
        LET pvc == call.arg
            keep(m) == IF allowAllTags THEN m ELSE ValidOnly(m)
            custom == CustomTags(pvc)
            merged == MapCopy(MapCopy(keep(defaultTags), keep(copiedLabels(pvc))), keep(custom))
        IN  call.ret = renderTagTemplates(pvc, merged)

\* C4 for the PVCs that have a storage class name: there the claim holds
BuildTagsIsRightBiasedMergeWithStorageClass ==
    (Built /\ call.arg.storageClassName = NilPtr) \/ BuildTagsIsRightBiasedMerge

\* C5: the tags annotation buildTags reads is <annotationPrefix>/tags when present; the
\* legacy aws-ebs-tagger/tags only when that one is absent and the prefix is the default
\* one; when both are present the legacy value contributes nothing; with a customized
\* prefix neither the legacy nor the default-prefix tags annotation is read.
BuildTagsReadsCurrentPrefixFirst ==
    Built =>
        LET pvc == call.arg
            current == annotationPrefix \o "/tags"
            legacy == legacyAnnotationPrefix \o "/tags"
            others == {legacy, defaultAnnotationPrefix \o "/tags"} \ {current}
            customized == annotationPrefix # defaultAnnotationPrefix
            legacyAsCurrent ==
                [pvc EXCEPT !.annotations =
                    MapPut(MapRemove(pvc.annotations, {legacy}), current, pvc.annotations[legacy])]
        IN  /\ (HasAnnotation(pvc, current) \/ customized) =>
                  call.ret = buildTags(WithoutAnnotations(pvc, others))
            /\ (~HasAnnotation(pvc, current) /\ ~customized /\ HasAnnotation(pvc, legacy)) =>
                  call.ret = buildTags(legacyAsCurrent)
            /\ (~HasAnnotation(pvc, current) /\ (customized \/ ~HasAnnotation(pvc, legacy))) =>
                  call.ret = buildTags(WithoutAnnotations(pvc, TagsAnnotations))

BuildTagsCurrentPrefixWitness ==
    /\ Built
    /\ annotationPrefix = defaultAnnotationPrefix
    /\ tagFormat = "json"
    /\ defaultTags = EmptyMap
    /\ HasAnnotation(call.arg, "k8s-pvc-tagger/tags")
    /\ HasAnnotation(call.arg, "aws-ebs-tagger/tags")
    /\ call.arg.annotations["k8s-pvc-tagger/tags"] # call.arg.annotations["aws-ebs-tagger/tags"]
    /\ call.arg.labels = EmptyMap
    /\ call.ret = [k \in {"a"} |-> "x"]
\* the tags of a PVC before their templates are rendered
UnrenderedTags(pvc) ==
    LET keep(m) == IF allowAllTags THEN m ELSE ValidOnly(m)
    IN  MapCopy(MapCopy(keep(defaultTags), keep(copiedLabels(pvc))), keep(CustomTags(pvc)))

\* the tags annotation that buildTags reads is JSON that json.Unmarshal rejects
Undecodable(pvc) ==
    /\ tagFormat = "json"
    /\ tagStringOf(pvc.annotations).ok
    /\ jsonUnmarshal(tagStringOf(pvc.annotations).tagString, EmptyMap).err

\* C14: with the JSON format, buildTags of a PVC whose tags annotation does not decode,
\* because of a syntax error or of a value that is not a string, is buildTags of the
\* same PVC without tags annotation: no entry of the annotation is applied.
BuildTagsAppliesNothingOfUndecodableJSON ==
    (Built /\ ~Ignored(call.arg) /\ Undecodable(call.arg)) =>
        call.ret = buildTags(WithoutAnnotations(call.arg, TagsAnnotations))

\* C16: buildTags keeps the literal value of every tag whose template fails to parse
\* or to execute, renders every other tag of the map, and a template that names a label
\* the PVC lacks renders that label as the empty string.
BuildTagsRendersFailSoft ==
    (Built /\ ~Ignored(call.arg) /\ call.ret # Panic) =>
        LET pvc == call.arg
            tplData == [Name |-> pvc.name, Namespace |-> pvc.namespace,
                        Labels |-> pvc.labels, Annotations |-> pvc.annotations]
            raw == UnrenderedTags(pvc)
        IN  /\ DOMAIN call.ret = DOMAIN raw
            /\ \A k \in DOMAIN raw :
                  /\ ~tmplRender(raw[k], tplData).ok => call.ret[k] = raw[k]
                  /\ tmplRender(raw[k], tplData).ok => call.ret[k] = tmplRender(raw[k], tplData).out
                  /\ raw[k] = "{{ .Blah }}-{{ .Name }}" => call.ret[k] = raw[k]
                  /\ (raw[k] = "{{ .Name }}-{{ .Labels.nope }}" /\ "nope" \notin DOMAIN pvc.labels) =>
                        call.ret[k] = pvc.name \o "-"
                  /\ raw[k] = "{{ .Namespace }}" => call.ret[k] = pvc.namespace

BuildTagsRendersFailSoftWitness ==
    /\ Built
    /\ tagFormat = "json"
    /\ "k8s-pvc-tagger/tags" \in DOMAIN call.arg.annotations
    /\ call.arg.annotations["k8s-pvc-tagger/tags"] \in TemplateTagStrings
    /\ "d" \in DOMAIN defaultTags
    /\ call.ret # Panic
    /\ DOMAIN call.ret = {"a", "b", "d"}
    /\ call.ret["a"] = "{{ .Blah }}-{{ .Name }}"
    /\ call.ret["b"] = "my-pvc-"
    /\ call.ret["d"] = "my-namespace"

\* C26 (under SpecCopyLabels): a label of the PVC is copied into the tags exactly when
\* copyLabels is ["*"] or holds the key of the label, and the key passes the validity
\* filter; with the star among other names only the labels of the names in the list
\* are copied, and with no copyLabels none is.
BuildTagsCopiesStarOrMembers ==
    (Built /\ call.ret # Panic) =>
        \A k \in DOMAIN call.arg.labels :
            LET named == copyLabels = <<"*">> \/ k \in SeqToSet(copyLabels)
                copied == named /\ (allowAllTags \/ isValidTagName(k))
                other == k \in (DOMAIN defaultTags) \cup (DOMAIN CustomTags(call.arg))
            IN  /\ copied =>
                      /\ k \in DOMAIN call.ret
                      /\ k \notin DOMAIN CustomTags(call.arg) => call.ret[k] = call.arg.labels[k]
                /\ (~copied /\ ~other) => k \notin DOMAIN call.ret

----------------------------------------------------------------------------
(* Claims about the reconciler, checked under Spec.                        *)

Added == ev.kind = "Added"

Updated == ev.kind = "Updated"

\* the tags that buildTags computes for an object of an event
TagsOf(obj) == buildTags(getPVC(obj))

\* the keys of the old computed tags that the new computed tags lack
DeletedKeys(e) == (DOMAIN TagsOf(e.old)) \ (DOMAIN TagsOf(e.new))

\* the volume of the PVC is found and identified
Resolves(obj) ==
    /\ ~processPersistentVolumeClaim(getPVC(obj)).err
    /\ ~processPersistentVolumeClaim(getPVC(obj)).panic

\* the PVC is provisioned by a provisioner of the active cloud mode
ProvisionerOfMode(obj) ==
    CASE cloud = AWS -> \/ provisionedByAwsEbs(getPVC(obj))
                        \/ provisionedByAwsEfs(getPVC(obj))
                        \/ provisionedByAwsFsx(getPVC(obj))
      [] cloud = GCP -> provisionedByGcpPD(getPVC(obj))
      [] cloud = AZURE -> provisionedByAzureDisk(getPVC(obj))

\* the Updated event passes the skip checks and its volume is resolved
Reconciles(e) ==
    /\ e.kind = "Updated"
    /\ e.new.resourceVersion # e.old.resourceVersion
    /\ e.new.volumeName # ""
    /\ e.new.deletionTimestamp = NilPtr
    /\ Resolves(e.new)

CallsOf(e, ops) == {i \in DOMAIN e.calls : e.calls[i].op \in ops}

\* the tags of the volume that are not the unmanaged ones
ManagedTags(tags) == MapRemove(tags, DOMAIN UnmanagedTags)

\* C1: every removal that an Updated event sends carries exactly the keys of
\* buildTags(old) that buildTags(new) lacks, and no event removes or changes a tag of
\* the volume whose key was never in a computed tag set.
RemovalIsOldKeysMinusNewKeys ==
    /\ Updated =>
          \A i \in CallsOf(ev, {"delete", "update"}) : ev.calls[i].keys = DeletedKeys(ev)
    /\ (Added \/ Updated) =>
          \A k \in DOMAIN UnmanagedTags : k \in DOMAIN remote /\ remote[k] = UnmanagedTags[k]

\* C6: in Azure mode an Updated event that passes the skip checks and resolves its
\* volume calls UpdateAzureVolumeTags once, with the new tags and the deleted keys, when
\* the PVC is provisioned by disk.csi.azure.com, and makes no call when it is not: the
\* test that AddFunc applies.
AzureUpdateCallsForAzureDisk ==
    (cloud = AZURE /\ Reconciles(ev) /\ ev.new.storageClassName # NilPtr) =>
        IF provisionedByAzureDisk(getPVC(ev.new))
        THEN /\ Len(ev.calls) = 1
             /\ ev.calls[1].fn = "UpdateAzureVolumeTags"
             /\ ev.calls[1].tags = TagsOf(ev.new)
             /\ ev.calls[1].keys = DeletedKeys(ev)
        ELSE ev.calls = <<>>

\* C7: an Updated event whose new object has the resource version of the old one, or no
\* volume name, or a deletion timestamp, looks up no PersistentVolume and makes no cloud
\* call, in every cloud mode and for every provisioner.
SkippedUpdateDoesNothing ==
    (/\ Updated
     /\ \/ ev.new.resourceVersion = ev.old.resourceVersion
        \/ ev.new.volumeName = ""
        \/ ev.new.deletionTimestamp # NilPtr) =>
        /\ ev.pvLookups = 0
        /\ ev.calls = <<>>
        /\ remote = ev.before
        /\ ~ev.panic

SkippedUpdateWitness ==
    /\ Updated
    /\ ev.new.deletionTimestamp # NilPtr
    /\ ev.new.resourceVersion # ev.old.resourceVersion
    /\ ev.new.storageClassName # NilPtr
    /\ ProvisionerOfMode(ev.new)
    /\ Resolves(ev.new)
    /\ TagsOf(ev.new) # EmptyMap
    /\ ev.calls = <<>>

\* C8: an Added event makes at most one call, which applies tags and removes none; it
\* applies buildTags(pvc) to the resolved volume when the resolution succeeds, the tags
\* are not empty and the provisioner is one of the active cloud mode; when the
\* resolution fails or the tags are empty it makes no call.
AddedAppliesTagsOnce ==
    Added =>
        /\ Len(ev.calls) <= 1
        /\ \A i \in DOMAIN ev.calls : ev.calls[i].op # "delete" /\ ev.calls[i].keys = {}
        /\ (Resolves(ev.new) /\ TagsOf(ev.new) # EmptyMap /\ ProvisionerOfMode(ev.new)) =>
              /\ Len(ev.calls) = 1
              /\ ev.calls[1].tags = TagsOf(ev.new)
              /\ ev.calls[1].volumeID = processPersistentVolumeClaim(getPVC(ev.new)).volumeID
        /\ (~Resolves(ev.new) \/ TagsOf(ev.new) = EmptyMap) => ev.calls = <<>>

\* C8 for the PVCs that have a storage class name: there the claim holds
AddedAppliesTagsOnceWithStorageClass ==
    (Added /\ ev.new.storageClassName = NilPtr) \/ AddedAppliesTagsOnce

\* C9: an Updated event in AWS or GCP mode makes at most one call that applies tags,
\* only for new tags that are not empty, and at most one call that removes keys, only
\* for deleted keys that are not empty, and the first has returned when the second is
\* made.
AddReturnsBeforeRemoval ==
    (Updated /\ cloud \in {AWS, GCP}) =>
        /\ Cardinality(CallsOf(ev, {"add"})) <= 1
        /\ Cardinality(CallsOf(ev, {"delete"})) <= 1
        /\ \A i \in CallsOf(ev, {"add"}), j \in CallsOf(ev, {"delete"}) : i < j
        /\ \A i \in CallsOf(ev, {"add"}) :
              ev.calls[i].tags # EmptyMap /\ ev.calls[i].tags = TagsOf(ev.new)
        /\ \A j \in CallsOf(ev, {"delete"}) : ev.calls[j].keys # {}
        /\ CallsOf(ev, {"add", "delete"}) = DOMAIN ev.calls

AddThenRemovalWitness ==
    /\ Updated
    /\ cloud = GCP
    /\ Len(ev.calls) = 2
    /\ ev.calls[1].op = "add" /\ ev.calls[1].tags = [k \in {"a"} |-> "x"]
    /\ ev.calls[2].op = "delete" /\ ev.calls[2].keys = {"b"}
    /\ ManagedTags(remote) = [k \in {"a"} |-> "x"]

\* C10: when an Updated event has applied the new tags and left keys it should have
\* removed, the next Updated event that is reconciled, all its calls succeeding, removes
\* them: the managed tags of the volume then are buildTags of the PVC.
NextUpdateRemovesStaleKeys ==
    (/\ Reconciles(ev)
     /\ ProvisionerOfMode(ev.new)
     /\ ev.staleBefore # {}
     /\ ~ev.panic
     /\ \A i \in DOMAIN ev.calls : ev.calls[i].ok) =>
        ManagedTags(remote) = TagsOf(ev.new)

----------------------------------------------------------------------------
(* Claims about the resolver, checked under SpecResolve.                   *)

\* the event has been handed to processPersistentVolumeClaim
Resolving ==
    /\ call.fn = "processPersistentVolumeClaim"
    /\ Added \/ (Updated /\ ~skipUpdate(getPVC(ev.old), getPVC(ev.new)))

\* the volume id that the source of the volume holds for the provisioner, as
\* [found, volumeID]; found is FALSE when the volume has no source for it.  A volume
\* of ebs.csi.aws.com without CSI source is identified as one of kubernetes.io/aws-ebs.
SourceVolumeID(by, pv) ==
    LET of(s) == [found |-> TRUE, volumeID |-> s]
        absent == [found |-> FALSE, volumeID |-> ""]
        accessPoint(parts) ==
            IF /\ Len(parts) = 2
               /\ HasPrefix(parts[1], "fs-") /\ IsWord(Suffix(parts[1], 4))
               /\ HasPrefix(parts[2], "fsap-") /\ IsWord(Suffix(parts[2], 6))
            THEN of(parts[2]) ELSE absent
    IN  CASE by \in {AWS_FSX_CSI, GCP_PD_CSI, AZURE_DISK_CSI} ->
                IF pv.csi = NilSource THEN absent ELSE of(pv.csi.volumeHandle)
          [] by = AWS_EBS_CSI /\ pv.csi # NilSource -> of(pv.csi.volumeHandle)
          [] by \in {AWS_EBS_CSI, AWS_EBS_LEGACY} ->
                IF pv.awsElasticBlockStore = NilSource THEN absent
                ELSE of(parseAWSEBSVolumeID(pv.awsElasticBlockStore.volumeID))
          [] by = AWS_EFS_CSI ->
                IF pv.csi = NilSource THEN absent ELSE accessPoint(Split(pv.csi.volumeHandle, "::"))
          [] by = GCP_PD_LEGACY ->
                IF pv.gcePersistentDisk = NilSource THEN absent ELSE of(pv.gcePersistentDisk.pdName)
          [] OTHER -> absent

\* the provisioner of the PVC: the annotation of today, else the beta one, else ""
ProvisionerOf(pvc) ==
    IF ProvisionerAnnotation \in DOMAIN pvc.annotations
    THEN pvc.annotations[ProvisionerAnnotation]
    ELSE IF BetaProvisionerAnnotation \in DOMAIN pvc.annotations
    THEN pvc.annotations[BetaProvisionerAnnotation]
    ELSE ""

\* one of the reasons for which the resolution of a PVC fails
ResolutionFails(pvc) ==
    \/ pvc.volumeName \notin DOMAIN pvs
    \/ pvc.annotations = EmptyMap
    \/ ProvisionerOf(pvc) \notin Provisioners
    \/ ~SourceVolumeID(ProvisionerOf(pvc), pvs[pvc.volumeName]).found
    \/ SourceVolumeID(ProvisionerOf(pvc), pvs[pvc.volumeName]).volumeID = ""

\* C11: a resolution that fails returns the empty volume id, nil tags and an error, and
\* the handler of the event then makes no cloud call and leaves the volume as it was;
\* the resolution that returns fails exactly when the volume is not found, the PVC has
\* no annotations or no provisioner annotation, the provisioner is not a recognized
\* one, or the volume id is empty or cannot be parsed.
ResolutionFailureMakesNoCall ==
    Resolving =>
        /\ call.ret.err =>
              /\ call.ret.volumeID = "" /\ call.ret.tags = EmptyMap
              /\ ev.calls = <<>> /\ ~ev.panic /\ remote = ev.before
        /\ ~call.ret.panic => (call.ret.err <=> ResolutionFails(call.arg))

ResolutionFailureWitness ==
    /\ Added
    /\ Resolving
    /\ call.arg.volumeName \in DOMAIN pvs
    /\ ProvisionerOf(call.arg) = "example.com/nfs"
    /\ call.arg.storageClassName # NilPtr
    /\ buildTags(call.arg) # EmptyMap
    /\ call.ret.err
    /\ ev.calls = <<>>

\* C12: no Added or Updated event panics, whatever the PVC and the volume it is bound
\* to: not with a volume that lacks the source its provisioner implies, and not with a
\* PVC without storage class name.
HandlerNeverPanics ==
    /\ ~crashed
    /\ (Added \/ Updated) => ~ev.panic

IsZone(z) ==
    LET shaped(parts) ==
            /\ Len(parts) = 3
            /\ Len(parts[1]) = 2 /\ IsWord(parts[1])
            /\ Len(parts[2]) \in 4..9 /\ IsWord(parts[2])
            /\ Len(parts[3]) = 2 /\ CharIn(CharAt(parts[3], 1), DigitChars) /\ IsWord(parts[3])
    IN  shaped(Split(z, "-"))

\* aws://<availability-zone>/vol-<id>
WellFormedEbsURL(id) ==
    LET shaped(parts) ==
            /\ Len(parts) = 2
            /\ IsZone(parts[1])
            /\ HasPrefix(parts[2], "vol-") /\ IsWord(Suffix(parts[2], 5))
    IN  HasPrefix(id, "aws://") /\ shaped(Split(Suffix(id, 7), "/"))

\* C23: for a PVC of kubernetes.io/aws-ebs bound to a volume whose
\* AWSElasticBlockStore volume id is not aws://<availability-zone>/vol-<id>,
\* parseAWSEBSVolumeID returns the empty string and the resolution that returns gives
\* the empty volume id, nil tags and an error.
MalformedEbsIDFailsResolution ==
    (/\ Resolving
     /\ ProvisionerOf(call.arg) = AWS_EBS_LEGACY
     /\ call.arg.volumeName \in DOMAIN pvs
     /\ pvs[call.arg.volumeName].awsElasticBlockStore # NilSource
     /\ ~WellFormedEbsURL(pvs[call.arg.volumeName].awsElasticBlockStore.volumeID)
     /\ ~call.ret.panic) =>
        /\ parseAWSEBSVolumeID(pvs[call.arg.volumeName].awsElasticBlockStore.volumeID) = ""
        /\ call.ret.err
        /\ call.ret.volumeID = ""
        /\ call.ret.tags = EmptyMap

\* the functions of the collaborator that serves a provisioner in a cloud mode; none
\* when the provisioner is not one of the mode
CollaboratorOf(mode, by) ==
    CASE mode = AWS /\ by \in {AWS_EBS_CSI, AWS_EBS_LEGACY} ->
            {"addEBSVolumeTags", "deleteEBSVolumeTags"}
      [] mode = AWS /\ by = AWS_EFS_CSI -> {"addEFSVolumeTags", "deleteEFSVolumeTags"}
      [] mode = AWS /\ by = AWS_FSX_CSI -> {"addFSxVolumeTags", "deleteFSxVolumeTags"}
      [] mode = GCP /\ by \in {GCP_PD_CSI, GCP_PD_LEGACY} ->
            {"addPDVolumeLabels", "deletePDVolumeLabels"}
      [] mode = AZURE /\ by = AZURE_DISK_CSI -> {"UpdateAzureVolumeTags"}
      [] OTHER -> {}

\* how many of the three provisioner tests of AWS the PVC passes
AwsProvisionerTestsPassed(pvc) ==
    Cardinality({t \in {"efs", "ebs", "fsx"} :
                    \/ t = "efs" /\ provisionedByAwsEfs(pvc)
                    \/ t = "ebs" /\ provisionedByAwsEbs(pvc)
                    \/ t = "fsx" /\ provisionedByAwsFsx(pvc)})

\* C30: every cloud call of an Added or Updated event is a call of the collaborator
\* that serves the provisioner of the PVC in the active cloud mode (EBS, EFS or FSx in
\* AWS mode, of which a PVC passes the test of at most one; PD in GCP mode; the disks
\* of Azure in Azure mode), and an event for a PVC whose provisioner is not one of the
\* active mode makes no cloud call, also when its volume is resolved.
CallsGoToTheCollaboratorOfTheProvisioner ==
    (Added \/ Updated) =>
        /\ AwsProvisionerTestsPassed(getPVC(ev.new)) <= 1
        /\ \A i \in DOMAIN ev.calls :
              ev.calls[i].fn \in CollaboratorOf(cloud, ProvisionerOf(getPVC(ev.new)))

\* C30 in AWS and GCP mode: there the claim holds
CallsGoToTheCollaboratorOfTheProvisionerInAwsAndGcp ==
    cloud = AZURE \/ CallsGoToTheCollaboratorOfTheProvisioner

\* a resolved PVC of a provisioner of GCP, with tags, is added in AWS mode
OtherCloudProvisionerWitness ==
    /\ Added
    /\ cloud = AWS
    /\ ProvisionerOf(getPVC(ev.new)) = GCP_PD_CSI
    /\ Resolves(ev.new)
    /\ TagsOf(ev.new) # EmptyMap
    /\ ev.new.storageClassName # NilPtr
    /\ ev.calls = <<>>

----------------------------------------------------------------------------
(* Claims about the parsers, the sanitizers and the cloud collaborators,   *)
(* checked under SpecCalls.                                                *)

CalledFn(fn) == call.fn = fn

\* the pair that a segment of a CSV text holds: [ok, k, v]
CsvPairOf(seg) ==
    LET pair(k, v) == [ok |-> k # "" /\ v # "", k |-> k, v |-> v]
        at(eq) ==
            IF eq = 0 THEN [ok |-> FALSE, k |-> "", v |-> ""]
            ELSE pair(TrimSpace(SubSeq(seg, 1, eq - 1)), TrimSpace(Suffix(seg, eq + 1)))
    IN  at(Index(seg, "="))

\* the map of the pairs of a CSV text, a later pair overwriting an earlier one
CsvPairs(value) ==
    LET segs == Split(value, ",")
        valid == {i \in 1..Len(segs) : CsvPairOf(segs[i]).ok}
        last(k) == CHOOSE i \in valid :
                      /\ CsvPairOf(segs[i]).k = k
                      /\ \A j \in valid : j > i => CsvPairOf(segs[j]).k # k
    IN  [k \in {CsvPairOf(segs[i]).k : i \in valid} |-> CsvPairOf(segs[last(k)]).v]

\* C15: parseCsv returns the map of the pairs of the comma-separated segments of its
\* argument: a segment is split at its first '=', the key and the value are trimmed,
\* the pair is kept when both are not empty, a later pair overwrites an earlier one of
\* the same key, and the segments that hold no such pair are dropped.
ParseCsvReturnsThePairs ==
    CalledFn("parseCsv") => call.ret = CsvPairs(call.arg)

ParseCsvWitness ==
    /\ CalledFn("parseCsv")
    /\ call.arg = "foo, b = z "
    /\ call.ret = [k \in {"b"} |-> "z"]

\* C17: the GCP sanitizers are idempotent: a sanitized key is sanitized to itself, and
\* a sanitized label map to itself.
SanitizeForGCPIsIdempotent ==
    /\ CalledFn("sanitizeKeyForGCP") => sanitizeKeyForGCP(call.ret) = call.ret
    /\ CalledFn("sanitizeLabelsForGCP") =>
          \A order \in RangeOrders(call.ret) : sanitizeLabelsForGCP(call.ret, order) = call.ret

\* C39: addFSxVolumeTags and deleteFSxVolumeTags reach the same resource for the same
\* volume id: the resource that one of them finds for an id is the one that the
\* other finds for it.
FSxTagsAreRemovedWhereTheyAreAdded ==
    /\ (CalledFn("addFSxVolumeTags") /\ ~call.ret.err) =>
          /\ ~resourceOfDeleteFSxVolumeTags(call.arg.volumeID).err
          /\ resourceOfDeleteFSxVolumeTags(call.arg.volumeID).arn = call.ret.arn
    /\ (CalledFn("deleteFSxVolumeTags") /\ ~call.ret.err) =>
          /\ ~resourceOfAddFSxVolumeTags(call.arg.volumeID).err
          /\ resourceOfAddFSxVolumeTags(call.arg.volumeID).arn = call.ret.arn

\* C37: a key that sanitizeKeyForGCP returns has at most 63 characters, none of them
\* an upper-case letter, "/" or ".", and does not end with "-" or "_".
SanitizeKeyForGCPFitsTheConstraints ==
    CalledFn("sanitizeKeyForGCP") =>
        /\ Len(call.ret) <= 63
        /\ \A i \in 1..Len(call.ret) : ~CharIn(CharAt(call.ret, i), UpperChars \o "/.")
        /\ call.ret = "" \/ ~CharIn(CharAt(call.ret, Len(call.ret)), "-_")

\* C37 for the keys of at most 63 characters: there the claim holds
SanitizeKeyForGCPFitsTheConstraintsOfShortKeys ==
    (CalledFn("sanitizeKeyForGCP") /\ Len(call.arg) > 63) \/ SanitizeKeyForGCPFitsTheConstraints

\* the volume id is one that parseVolumeID splits into project, zone and name
ParsesAsPD(volumeID) == ~parseVolumeID(volumeID).err /\ ~parseVolumeID(volumeID).panic

\* existing overridden by the entries of over
Merged(existing, over) ==
    [k \in (DOMAIN existing) \cup (DOMAIN over) |-> IF k \in DOMAIN over THEN over[k] ELSE existing[k]]

\* C18: addPDVolumeLabels, GetDisk succeeding, sends one SetDiskLabels request when the
\* labels of the disk overridden by the sanitized labels differ from the labels of the
\* disk, and none when they do not; the request carries the merged labels, in which
\* every label of the disk that the sanitized labels do not name has its value.
AddPDVolumeLabelsWritesTheMergeWhenItDiffers ==
    (CalledFn("addPDVolumeLabels") /\ ParsesAsPD(call.arg.volumeID) /\ call.arg.getOk) =>
        LET existing == call.arg.existing
            sanitized == sanitizeLabelsForGCP(call.arg.labels, call.arg.order)
        IN  /\ Len(call.ret.sets) <= 1
            /\ call.ret.sets # <<>> <=> Merged(existing, sanitized) # existing
            /\ call.ret.sets # <<>> =>
                  /\ call.ret.sets[1] = Merged(existing, sanitized)
                  /\ \A k \in (DOMAIN existing) \ (DOMAIN sanitized) :
                        k \in DOMAIN call.ret.sets[1] /\ call.ret.sets[1][k] = existing[k]
            /\ remote = IF call.ret.sets # <<>> /\ call.arg.setOk
                        THEN Merged(existing, sanitized) ELSE existing

AddPDVolumeLabelsAlreadySetWitness ==
    /\ CalledFn("addPDVolumeLabels")
    /\ ParsesAsPD(call.arg.volumeID) /\ call.arg.getOk /\ call.arg.setOk
    /\ call.arg.existing = ("a" :> "x") @@ ("team" :> "storage")
    /\ call.arg.labels = [k \in {"a"} |-> "x"]
    /\ call.ret.sets = <<>>

\* C19: deletePDVolumeLabels sends no SetDiskLabels request when it is given no key,
\* when the disk has no label, or when the disk has none of the sanitized keys;
\* otherwise, GetDisk succeeding, it sends one request with the labels of the disk but
\* those of the sanitized keys.
DeletePDVolumeLabelsWritesTheRestWhenItDiffers ==
    CalledFn("deletePDVolumeLabels") =>
        LET existing == call.arg.existing
            sanitizedKeys == {sanitizeKeyForGCP(k) : k \in call.arg.keys}
            rest == [k \in (DOMAIN existing) \ sanitizedKeys |-> existing[k]]
        IN  /\ (\/ call.arg.keys = {}
                \/ existing = EmptyMap
                \/ sanitizedKeys \cap (DOMAIN existing) = {}) =>
                  call.ret.sets = <<>> /\ remote = existing
            /\ (/\ call.arg.keys # {}
                /\ sanitizedKeys \cap (DOMAIN existing) # {}
                /\ ParsesAsPD(call.arg.volumeID) /\ call.arg.getOk) =>
                  /\ call.ret.sets = <<rest>>
                  /\ remote = IF call.arg.setOk THEN rest ELSE existing

DeletePDVolumeLabelsSanitizedKeyWitness ==
    /\ CalledFn("deletePDVolumeLabels")
    /\ ParsesAsPD(call.arg.volumeID) /\ call.arg.getOk /\ call.arg.setOk
    /\ call.arg.existing = ("a" :> "old") @@ ("dom-tld_key" :> "v")
    /\ call.arg.keys = {"dom.tld/key"}
    /\ call.ret.sets = <<[k \in {"a"} |-> "old"]>>
    /\ remote = [k \in {"a"} |-> "old"]

\* C20: UpdateAzureVolumeTags, GetDiskTags succeeding, sends a SetDiskTags request
\* exactly when the tags of the disk overridden by the sanitized tags, without the
\* removed keys, differ from the tags of the disk as a map of keys to values.
UpdateAzureVolumeTagsWritesOnlyADifference ==
    (/\ CalledFn("UpdateAzureVolumeTags")
     /\ ~sanitizeLabelsForAzure(call.arg.tags, call.arg.order).err
     /\ ~parseAzureVolumeID(call.arg.volumeID).err
     /\ call.arg.getOk) =>
        LET existing == call.arg.existing
            sanitized == sanitizeLabelsForAzure(call.arg.tags, call.arg.order).diskTags
            merged == MapRemove(Merged(existing, sanitized), call.arg.removedTags)
        IN  call.ret.sets # <<>> <=> merged # existing

\* C35: after an UpdateAzureVolumeTags that succeeds, the disk carries no tag under
\* the sanitized form of a removed key, unless a tag that is set has that sanitized
\* key: also for the removed keys from which the sanitization strips a character.
AzureRemovalMatchesTheSanitizedKey ==
    (CalledFn("UpdateAzureVolumeTags") /\ ~call.ret.err) =>
        \A k \in call.arg.removedTags :
            \/ \E t \in DOMAIN call.arg.tags : sanitizeKeyForAzure(t) = sanitizeKeyForAzure(k)
            \/ sanitizeKeyForAzure(k) \notin DOMAIN remote

\* C35 for the removed keys that the sanitization leaves as they are: there the
\* claim holds
AzureRemovalMatchesTheKeyLeftAsItIs ==
    \/ /\ CalledFn("UpdateAzureVolumeTags")
       /\ \E k \in call.arg.removedTags : sanitizeKeyForAzure(k) # k
    \/ AzureRemovalMatchesTheSanitizedKey

\* the error that the limits of Azure make of a tag map ("" when it is within them)
AzureLimitError(tags) ==
    IF Cardinality(DOMAIN tags) > 50 THEN ErrAzureTooManyTags
    ELSE IF \E k \in DOMAIN tags : Len(tags[k]) > 256 THEN ErrAzureValueToLong
    ELSE ""

\* C21: sanitizeLabelsForAzure fails with ErrAzureTooManyTags for a map of more than 50
\* tags and with ErrAzureValueToLong for a map of at most 50 tags of which a value is
\* longer than 256 characters, returning no map, and succeeds for the other maps;
\* UpdateAzureVolumeTags then returns that error without a GetDiskTags or SetDiskTags
\* request, and the disk keeps its tags.
AzureLimitsFailTheWholeTagSet ==
    /\ CalledFn("sanitizeLabelsForAzure") =>
          /\ call.ret.err <=> AzureLimitError(call.arg.tags) # ""
          /\ call.ret.kind = AzureLimitError(call.arg.tags)
          /\ call.ret.err => call.ret.diskTags = EmptyMap
    /\ (CalledFn("UpdateAzureVolumeTags") /\ AzureLimitError(call.arg.tags) # "") =>
          /\ call.ret.err
          /\ call.ret.kind = AzureLimitError(call.arg.tags)
          /\ call.ret.gets = 0
          /\ call.ret.sets = <<>>
          /\ remote = call.arg.existing

AzureValueTooLongWitness ==
    /\ CalledFn("UpdateAzureVolumeTags")
    /\ call.arg.tags = ("a" :> "x") @@ ("b" :> Repeat("v", 257))
    /\ call.arg.existing = ("a" :> "old") @@ ("b" :> "y")
    /\ ~parseAzureVolumeID(call.arg.volumeID).err /\ call.arg.getOk /\ call.arg.setOk
    /\ call.ret.kind = ErrAzureValueToLong
    /\ remote = call.arg.existing

\* s is made of slashes only
AllSlashes(s) == \A i \in 1..Len(s) : CharAt(s, i) = "/"

\* id is "aws://", a zone without slash, one or more slashes, vol and then slashes
\* only, for vol a match of ^vol-[^/]*$
IsEbsURLOf(id, vol) ==
    /\ HasPrefix(vol, "vol-") /\ \A i \in 1..Len(vol) : CharAt(vol, i) # "/"
    /\ \E i \in 8..Len(id) :
          /\ i + Len(vol) - 1 <= Len(id)
          /\ SubSeq(id, i, i + Len(vol) - 1) = vol
          /\ AllSlashes(Suffix(id, i + Len(vol)))
          /\ \E z \in 7..(i - 1) :
                /\ \A k \in 7..(z - 1) : CharAt(id, k) # "/"
                /\ AllSlashes(SubSeq(id, z, i - 1))

\* the parts of id that could be returned as its volume
Substrings(id) == {SubSeq(id, i, j) : i \in 1..Len(id), j \in 1..Len(id)}

ParseVolumeIDRejectsShortHandles ==
    /\ CalledFn("parseVolumeID") =>
          LET parts == Split(call.arg, "/")
          IN  /\ ~call.ret.panic
              /\ call.ret.err <=> Len(parts) < 6
              /\ call.ret.err =>
                    call.ret.project = "" /\ call.ret.location = "" /\ call.ret.name = ""
              /\ ~call.ret.err =>
                    /\ call.ret.project = parts[2]
                    /\ call.ret.location = parts[4]
                    /\ call.ret.name = parts[6]
    /\ (/\ CalledFn("addPDVolumeLabels") \/ (CalledFn("deletePDVolumeLabels") /\ call.arg.keys # {})
        /\ Len(Split(call.arg.volumeID, "/")) < 6) =>
          /\ ~call.ret.panic
          /\ call.ret.err
          /\ call.ret.sets = <<>>

\* C25: parseAzureVolumeID returns the fields 2, 4 and 8 of the id split at "/" and no
\* error exactly when the id has nine fields, and three empty strings and an error
\* otherwise; UpdateAzureVolumeTags, given tags within the limits, returns the error
\* of such an id without a GetDiskTags or SetDiskTags request.
ParseAzureVolumeIDTakesNineFields ==
    /\ CalledFn("parseAzureVolumeID") =>
          LET fields == Split(call.arg, "/")
          IN  /\ call.ret.err <=> Len(fields) # 9
              /\ call.ret.err =>
                    /\ call.ret.subscription = ""
                    /\ call.ret.resourceGroup = ""
                    /\ call.ret.diskName = ""
              /\ ~call.ret.err =>
                    /\ call.ret.subscription = fields[3]
                    /\ call.ret.resourceGroup = fields[5]
                    /\ call.ret.diskName = fields[9]
    /\ (/\ CalledFn("UpdateAzureVolumeTags")
        /\ AzureLimitError(call.arg.tags) = ""
        /\ Len(Split(call.arg.volumeID, "/")) # 9) =>
          /\ call.ret.err
          /\ call.ret.kind = "invalid volume id"
          /\ call.ret.gets = 0
          /\ call.ret.sets = <<>>
          /\ remote = call.arg.existing

ParseAzureVolumeIDOfTenFieldsWitness ==
    /\ CalledFn("UpdateAzureVolumeTags")
    /\ Len(Split(call.arg.volumeID, "/")) = 10
    /\ call.arg.tags = [k \in {"a"} |-> "x"]
    /\ call.arg.existing = EmptyMap
    /\ call.arg.getOk /\ call.arg.setOk
    /\ call.ret.err
    /\ remote = EmptyMap

\* a and b are equal but for the case of their letters
EqualFold(a, b) ==
    /\ Len(a) = Len(b)
    /\ \A i \in 1..Len(a) : ToLowerChar(CharAt(a, i)) = ToLowerChar(CharAt(b, i))

\* C27: isValidTagName is false exactly for the names that, whatever the case of their
\* letters, start with kubernetes.io or are name or kubernetescluster.
IsValidTagNameRejectsRestrictedNames ==
    CalledFn("isValidTagName") =>
        (call.ret = FALSE <=>
            \/ /\ Len(call.arg) >= Len("kubernetes.io")
               /\ EqualFold(SubSeq(call.arg, 1, Len("kubernetes.io")), "kubernetes.io")
            \/ EqualFold(call.arg, "name")
            \/ EqualFold(call.arg, "kubernetescluster"))

IsValidTagNameOfMixedCaseWitness ==
    /\ CalledFn("isValidTagName")
    /\ call.arg = "Kubernetes.IO/created-for"
    /\ call.ret = FALSE

\* the keys of a map all sanitize to different keys
SanitizesApart(m, sanitizeKey(_)) ==
    \A j, k \in DOMAIN m : sanitizeKey(j) = sanitizeKey(k) => j = k

\* C31: sanitizeLabelsForGCP and sanitizeLabelsForAzure return, for a map, the same
\* map whatever the order in which the range visits its keys, also when two keys of
\* the map sanitize to the same key.
SanitizeLabelsIsDeterministic ==
    /\ CalledFn("sanitizeLabelsForGCP") =>
          \A order \in RangeOrders(call.arg.labels) :
              sanitizeLabelsForGCP(call.arg.labels, order) = call.ret
    /\ CalledFn("sanitizeLabelsForAzure") =>
          \A order \in AzureOrders(call.arg.tags) :
              sanitizeLabelsForAzure(call.arg.tags, order) = call.ret

\* C31 for the maps whose keys sanitize to different keys: there the claim holds
SanitizeLabelsIsDeterministicOfKeysApart ==
    \/ /\ CalledFn("sanitizeLabelsForGCP")
       /\ ~SanitizesApart(call.arg.labels, sanitizeKeyForGCP)
    \/ /\ CalledFn("sanitizeLabelsForAzure")
       /\ ~SanitizesApart(call.arg.tags, sanitizeKeyForAzure)
    \/ SanitizeLabelsIsDeterministic


----------------------------------------------------------------------------
(* Claims about the wait of the GCP collaborators, checked under           *)
(* SpecPollFair.                                                           *)

Polling == call # NoCall /\ call.pc = "polling"

PollEnded ==
    call # NoCall /\ call.pc \in {"done", "failed", "timeout"} /\ call.elapsed <= pollTimeout

\* C29: addPDVolumeLabels and deletePDVolumeLabels always return: a call that waits
\* for its operation comes to an end, with the status DONE, with an error of
\* GetGCEOp, or with the timeout at 60 seconds, and never waits longer.
PDVolumeLabelsAlwaysReturn ==
    /\ [](Polling => call.elapsed <= pollTimeout)
    /\ Polling ~> PollEnded

PDVolumeLabelsTimeoutWitness ==
    /\ call # NoCall
    /\ call.fn = "deletePDVolumeLabels"
    /\ call.pc = "timeout"
    /\ call.elapsed = pollTimeout

----------------------------------------------------------------------------
(* Claims about a call interleaved with another writer, checked under      *)
(* SpecInterleave.                                                         *)

\* the call has sent its write and returned
Wrote == call # NoCall /\ call.pc = "returned" /\ call.requests # <<>>

\* C32: a tag that another writer puts on the disk between the GetDiskTags and the
\* SetDiskTags of UpdateAzureVolumeTags is on the disk after the write.
AzureWriteKeepsTagsOfOtherWriters ==
    (cloud = AZURE /\ Wrote) =>
        \A k \in DOMAIN call.others : k \in DOMAIN remote /\ remote[k] = call.others[k]

\* C32 for the tags that the disk carried at the read: the write keeps those that
\* are neither set nor removed by the call
AzureWriteKeepsTagsRead ==
    (cloud = AZURE /\ Wrote /\ ~call.err) =>
        \A k \in (DOMAIN call.disk.labels) \ (call.arg.keys \cup DOMAIN call.arg.tags) :
            k \in DOMAIN remote /\ remote[k] = call.disk.labels[k]

\* C38: the SetDiskLabels request of addPDVolumeLabels and deletePDVolumeLabels
\* carries the labels computed of the disk that GetDisk returned and the fingerprint
\* of that disk; when another writer has changed the labels since, the request is
\* rejected, the labels of the other writer stay, and the call ends with the error
\* after that one request.
SetDiskLabelsCarriesTheFingerprintRead ==
    (cloud = GCP /\ Wrote) =>
        /\ Len(call.requests) = 1
        /\ call.requests[1].labelFingerprint = call.disk.labelFingerprint
        /\ call.requests[1].labels =
              IF call.fn = "addPDVolumeLabels"
              THEN MapCopy(call.disk.labels, call.arg.tags)
              ELSE MapRemove(call.disk.labels, call.arg.keys)
        /\ call.others # EmptyMap =>
              /\ call.err
              /\ remote = call.before
              /\ \A k \in DOMAIN call.others : k \in DOMAIN remote /\ remote[k] = call.others[k]

StaleSetDiskLabelsWitness ==
    /\ cloud = GCP
    /\ Wrote
    /\ call.fn = "deletePDVolumeLabels"
    /\ "owner" \in DOMAIN call.others
    /\ "owner" \in DOMAIN remote
    /\ "a" \in DOMAIN remote
    /\ call.err

----------------------------------------------------------------------------
(* Claims about the cache of clients, checked under SpecClients.           *)

\* the goroutines have made their calls of getClient and are in none
GetClientsReturned ==
    /\ call # NoCall
    /\ call.fn = "getClient"
    /\ \A i \in Goroutines : call.g[i].pc = "idle"

GetClientOfRunsWithoutRace ==
    (GetClientsReturned /\ ~call.raced /\ ~crashed) =>
        DOMAIN call.clients = UNION {call.g[i].asked : i \in Goroutines}

----------------------------------------------------------------------------
(* Claims about the writes that drop tags, checked under SpecDropping.     *)

\* the Updated event passes the three skip checks of UpdateFunc
PassesSkipChecks(e) ==
    /\ e.kind = "Updated"
    /\ e.new.resourceVersion # e.old.resourceVersion
    /\ e.new.volumeName # ""
    /\ e.new.deletionTimestamp = NilPtr

\* a key that the update drops sanitizes to the key of a tag that it keeps
DroppedKeyCollides(e) ==
    \E d \in DeletedKeys(e), k \in DOMAIN TagsOf(e.new) :
        sanitizeKeyForGCP(d) = sanitizeKeyForGCP(k)

\* C34: in GCP mode, after an Updated event whose calls all succeed, the disk carries
\* under the sanitized key of every new tag the sanitized value of a new tag of that
\* key: the removal of the event removes no label that its addition wrote.
UpdatedLeavesNewLabelsOnDisk ==
    (/\ cloud = GCP
     /\ Reconciles(ev)
     /\ ~ev.panic
     /\ \A i \in DOMAIN ev.calls : ev.calls[i].ok) =>
        \A k \in DOMAIN TagsOf(ev.new) :
            /\ sanitizeKeyForGCP(k) \in DOMAIN remote
            /\ \E j \in DOMAIN TagsOf(ev.new) :
                  /\ sanitizeKeyForGCP(j) = sanitizeKeyForGCP(k)
                  /\ remote[sanitizeKeyForGCP(k)] = sanitizeValueForGCP(TagsOf(ev.new)[j])

\* C34 for the updates that drop no key that sanitizes to the key of a new tag:
\* there the claim holds
UpdatedLeavesNewLabelsOnDiskWithoutCollision ==
    (cloud = GCP /\ Reconciles(ev) /\ DroppedKeyCollides(ev)) \/ UpdatedLeavesNewLabelsOnDisk

\* C36: in AWS and GCP mode an Updated event that passes the skip checks and whose
\* new PVC carries the ignore annotation, which the old PVC lacks, makes no call that
\* applies tags, and makes one call that removes exactly the keys of buildTags(old)
\* when there are any.
IgnoreSetStripsTheTags ==
    (/\ cloud \in {AWS, GCP}
     /\ PassesSkipChecks(ev)
     /\ HasAnnotation(ev.new, "k8s-pvc-tagger/ignore")
     /\ ~HasAnnotation(ev.old, "k8s-pvc-tagger/ignore")) =>
        /\ CallsOf(ev, {"add"}) = {}
        /\ TagsOf(ev.old) # EmptyMap =>
              /\ Cardinality(CallsOf(ev, {"delete"})) = 1
              /\ \A i \in CallsOf(ev, {"delete"}) : ev.calls[i].keys = DOMAIN TagsOf(ev.old)

\* C36 but for the removal of FSx with one range variable for the loop: there the
\* claim holds
IgnoreSetStripsTheTagsButOfFSx ==
    \/ PassesSkipChecks(ev) /\ provisionedByAwsFsx(getPVC(ev.new)) /\ ~loopVarPerIteration
    \/ IgnoreSetStripsTheTags

\* the ignore annotation is set on an EBS PVC of two tags, which are removed
IgnoreSetWitness ==
    /\ cloud = AWS
    /\ PassesSkipChecks(ev)
    /\ HasAnnotation(ev.new, "k8s-pvc-tagger/ignore")
    /\ ~HasAnnotation(ev.old, "k8s-pvc-tagger/ignore")
    /\ Len(ev.calls) = 1
    /\ ev.calls[1].fn = "deleteEBSVolumeTags"
    /\ ev.calls[1].keys = {"a.b", "a-b"}
    /\ ev.calls[1].ok
    /\ DOMAIN remote = DOMAIN UnmanagedTags

====
